---- MODULE Spec2Model ----
(***************************************************************************)
(* The conversational intake engine of the Tricog project: the per-session *)
(* state machine driven by getAIResponse (backend/llm.js), the chat        *)
(* transport around it (server: patient_message / POST /api/chat/message)  *)
(* and the session life cycle (routes: chat/start, chat/complete).         *)
(*                                                                         *)
(* Text is a sequence of one-character strings, so that the regular-       *)
(* expression replacements and the substring tests of the source are       *)
(* computed as the source computes them.                                   *)
(***************************************************************************)
EXTENDS Integers, Sequences, FiniteSets, TLC

\* ---------------------------------------------------------------------
\* JavaScript values
\* ---------------------------------------------------------------------

\* undefined / null / a missing property: all falsy, all dropped or nulled
\* by the JSON round trip through the session_data column
None == "none"

Min(a, b) == IF a <= b THEN a ELSE b

Letters ==
    {"a","b","c","d","e","f","g","h","i","j","k","l","m",
     "n","o","p","q","r","s","t","u","v","w","x","y","z"}

UpperToLower ==
    [c \in {"A","B","C","D","E","F","G","H","I","J","K","L","M",
            "N","O","P","Q","R","S","T","U","V","W","X","Y","Z"} |->
        CASE c = "A" -> "a" [] c = "B" -> "b" [] c = "C" -> "c" [] c = "D" -> "d"
          [] c = "E" -> "e" [] c = "F" -> "f" [] c = "G" -> "g" [] c = "H" -> "h"
          [] c = "I" -> "i" [] c = "J" -> "j" [] c = "K" -> "k" [] c = "L" -> "l"
          [] c = "M" -> "m" [] c = "N" -> "n" [] c = "O" -> "o" [] c = "P" -> "p"
          [] c = "Q" -> "q" [] c = "R" -> "r" [] c = "S" -> "s" [] c = "T" -> "t"
          [] c = "U" -> "u" [] c = "V" -> "v" [] c = "W" -> "w" [] c = "X" -> "x"
          [] c = "Y" -> "y" [] c = "Z" -> "z"]

\* String.prototype.toLowerCase
toLowerCase(s) ==
    [i \in 1..Len(s) |-> IF s[i] \in DOMAIN UpperToLower THEN UpperToLower[s[i]] ELSE s[i]]

\* String.prototype.includes
includes(text, s) ==
    \E i \in 1..(Len(text) - Len(s) + 1) : SubSeq(text, i, i + Len(s) - 1) = s

\* ---------------------------------------------------------------------
\* filterAndSpellCheck (llm.js 291-330)
\* ---------------------------------------------------------------------

\* One alternative of a regular expression: the literal pre, or pre.*post
Lit(p) == [pre |-> p, wild |-> FALSE, post |-> <<>>]
Wild(p, q) == [pre |-> p, wild |-> TRUE, post |-> q]

\* the literal lit occurs in s at position i, ignoring case (flag i)
LitAt(s, i, lit) ==
    /\ i + Len(lit) - 1 <= Len(s)
    /\ toLowerCase(SubSeq(s, i, i + Len(lit) - 1)) = lit

\* Position just after the match of alternative alt starting at i, 0 when it
\* does not match there.  The .* is greedy: the last occurrence of post wins.
MatchEnd(s, i, alt) ==
    IF ~LitAt(s, i, alt.pre) THEN 0
    ELSE IF ~alt.wild THEN i + Len(alt.pre)
    ELSE LET from == i + Len(alt.pre)
             ends == {j \in from..Len(s) : LitAt(s, j, alt.post)}
         IN  IF ends = {} THEN 0
             ELSE (CHOOSE j \in ends : \A k \in ends : k <= j) + Len(alt.post)

\* the first alternative (in order) that matches at i decides the match
RECURSIVE FirstMatchEnd(_, _, _, _)
FirstMatchEnd(s, i, alts, k) ==
    IF k > Len(alts) THEN 0
    ELSE IF MatchEnd(s, i, alts[k]) # 0 THEN MatchEnd(s, i, alts[k])
    ELSE FirstMatchEnd(s, i, alts, k + 1)

\* String.prototype.replace with a global regular expression: one left to
\* right pass, matches do not overlap, the replacement is not rescanned
RECURSIVE replaceFrom(_, _, _, _)
replaceFrom(s, i, alts, repl) ==
    IF i > Len(s) THEN <<>>
    ELSE LET e == FirstMatchEnd(s, i, alts, 1)
         IN  IF e = 0 THEN <<s[i]>> \o replaceFrom(s, i + 1, alts, repl)
             ELSE repl \o replaceFrom(s, e, alts, repl)

replace(s, alts, repl) == replaceFrom(s, 1, alts, repl)

FILTERED == <<"[","F","I","L","T","E","R","E","D","]">>

maliciousPatterns ==
    <<
      <<Lit(<<"h","a","c","k">>),
        Lit(<<"c","r","a","c","k">>),
        Lit(<<"e","x","p","l","o","i","t">>),
        Lit(<<"v","i","r","u","s">>),
        Lit(<<"m","a","l","w","a","r","e">>),
        Lit(<<"p","h","i","s","h","i","n","g">>)>>,
      <<Lit(<<"p","r","e","s","c","r","i","p","t","i","o","n">>),
        Wild(<<"g","i","v","e">>, <<"m","e","d","i","c","i","n","e">>),
        Wild(<<"r","e","c","o","m","m","e","n","d">>, <<"d","r","u","g">>)>>,
      <<Lit(<<"d","i","a","g","n","o","s","e">>),
        Wild(<<"w","h","a","t">>, <<"d","i","s","e","a","s","e">>),
        Wild(<<"t","e","l","l">>, <<"t","r","e","a","t","m","e","n","t">>)>>
    >>

\* Object.entries(corrections): the canonical term and its variants, in source order
corrections ==
    <<
      [correct |-> <<"c","h","e","s","t"," ","p","a","i","n">>,
       variants |-> <<<<"c","h","e","s","t"," ","p","a","n","e">>,
                      <<"c","h","e","a","s","t"," ","p","a","i","n">>,
                      <<"c","h","e","s","t"," ","l","o"," ","p","a","i","n">>>>],
      [correct |-> <<"h","e","a","d","a","c","h","e">>,
       variants |-> <<<<"h","e","a","d"," ","a","c","h","e">>,
                      <<"h","e","d","a","c","h","e">>,
                      <<"h","e","a","d"," ","l","o"," ","p","a","i","n">>>>],
      [correct |-> <<"s","h","o","r","t","n","e","s","s"," ","o","f"," ","b","r","e","a","t","h">>,
       variants |-> <<<<"s","h","o","r","t"," ","b","r","e","a","t","h">>,
                      <<"b","r","e","a","t","h","i","n","g"," ","p","r","o","b","l","e","m">>,
                      <<"c","a","n","t"," ","b","r","e","a","t","h","e">>>>],
      [correct |-> <<"p","a","l","p","i","t","a","t","i","o","n","s">>,
       variants |-> <<<<"h","e","a","r","t"," ","b","e","a","t","i","n","g"," ","f","a","s","t">>,
                      <<"h","e","a","r","t"," ","r","a","c","i","n","g">>,
                      <<"g","u","n","d","e"," ","b","a","g","a"," ","f","a","s","t">>>>],
      [correct |-> <<"d","i","z","z","i","n","e","s","s">>,
       variants |-> <<<<"d","i","z","z","y">>,
                      <<"l","i","g","h","t"," ","h","e","a","d","e","d">>,
                      <<"c","h","a","k","k","a","r">>>>],
      [correct |-> <<"f","a","t","i","g","u","e">>,
       variants |-> <<<<"t","i","r","e","d">>,
                      <<"w","e","a","k","n","e","s","s">>,
                      <<"w","e","a","k"," ","f","e","e","l","i","n","g">>>>],
      [correct |-> <<"s","w","e","a","t","i","n","g">>,
       variants |-> <<<<"p","e","r","s","p","i","r","a","t","i","o","n">>,
                      <<"s","w","e","a","t","s">>,
                      <<"c","h","i","m","m","a","t","a">>>>],
      [correct |-> <<"n","a","u","s","e","a">>,
       variants |-> <<<<"f","e","e","l","i","n","g"," ","s","i","c","k">>,
                      <<"v","o","m","i","t","i","n","g"," ","s","e","n","s","a","t","i","o","n">>,
                      <<"v","o","m","i","t"," ","f","e","e","l">>>>]
    >>


RECURSIVE applyPatterns(_, _)
applyPatterns(s, k) ==
    IF k > Len(maliciousPatterns) THEN s
    ELSE LET r == replace(s, maliciousPatterns[k], FILTERED)
         IN  IF r = s THEN applyPatterns(s, k + 1) ELSE applyPatterns(r, k + 1)

RECURSIVE applyVariants(_, _, _)
applyVariants(s, entry, v) ==
    IF v > Len(entry.variants) THEN s
    ELSE LET r == replace(s, <<Lit(entry.variants[v])>>, entry.correct)
         IN  IF r = s THEN applyVariants(s, entry, v + 1) ELSE applyVariants(r, entry, v + 1)

RECURSIVE applyCorrections(_, _)
applyCorrections(s, k) ==
    IF k > Len(corrections) THEN s
    ELSE LET r == applyVariants(s, corrections[k], 1)
         IN  IF r = s THEN applyCorrections(s, k + 1) ELSE applyCorrections(r, k + 1)

filterAndSpellCheck(message) == applyCorrections(applyPatterns(message, 1), 1)

\* canonical symptom keys of the catalog rows
CHESTPAIN == <<"c","h","e","s","t"," ","p","a","i","n">>
FATIGUE == <<"f","a","t","i","g","u","e">>
DIZZINESS == <<"d","i","z","z","i","n","e","s","s">>

\* ---------------------------------------------------------------------
\* Configuration (config.ai, config.chat)
\* ---------------------------------------------------------------------

\* config.ai.maxQuestionsPerSymptom || 3
maxQuestionsPerSymptom == 3

\* config.chat.maxConversationMessages: a deployment setting (10 when unset);
\* the window is kept short here so that trimming happens within a session
maxConversationMessages == 4

\* ---------------------------------------------------------------------
\* The symptom catalog (table symptom_rules) and its two readers
\* ---------------------------------------------------------------------

\* Rows in table order.  The rule routes accept any array of questions, the
\* empty one included: one rule is longer than the cap, one is shorter, one
\* has no questions.
symptom_rules ==
    <<
      [symptom |-> CHESTPAIN,
       follow_up_questions |-> <<"When did the chest pain start?",
                                 "On a scale of 1-10, how severe is the pain?",
                                 "Does the pain radiate to your arm, jaw, neck or back?",
                                 "Do you have shortness of breath along with chest pain?">>],
      [symptom |-> FATIGUE,
       follow_up_questions |-> <<"How long have you been experiencing unusual fatigue?">>],
      [symptom |-> DIZZINESS,
       follow_up_questions |-> <<>>]
    >>

defaultQuestions ==
    <<"When did this symptom start?",
      "How severe is it on a scale of 1-10?",
      "Does anything make it better or worse?">>

tellMeMore == "Can you tell me more about your main symptom?"

\* no symptom: null, undefined and the empty string are all falsy
NoSymptom == <<>>

\* rows of symptom_rules WHERE symptom ILIKE '%key%', in table order
rulesLike(key) ==
    SelectSeq(symptom_rules,
              LAMBDA r : includes(toLowerCase(r.symptom), toLowerCase(key)))

\* rows[0].follow_up_questions of a non-empty result
questionsOr(rows, otherwise) ==
    IF rows # <<>> THEN rows[1].follow_up_questions ELSE otherwise

\* the query of getAIResponse (LIMIT 1): rows[0]?.follow_up_questions || []
symptomQuestionsOf(currentSymptom) == questionsOr(rulesLike(currentSymptom), <<>>)

getSymptomQuestions(symptom) == questionsOr(rulesLike(symptom), defaultQuestions)

\* text.split(/[^a-z]+/g).filter(Boolean), as a set
tokensOf(text) ==
    {SubSeq(text, i, j) : <<i, j>> \in
        {p \in (1..Len(text)) \X (1..Len(text)) :
            /\ p[1] <= p[2]
            /\ \A k \in p[1]..p[2] : text[k] \in Letters
            /\ (p[1] = 1 \/ text[p[1] - 1] \notin Letters)
            /\ (p[2] = Len(text) \/ text[p[2] + 1] \notin Letters)}}

\* s.split(/\s+/g), as a set (the empty string of a leading or trailing
\* blank is never a token of the text)
wordsOf(s) ==
    {SubSeq(s, i, j) : <<i, j>> \in
        {p \in (1..Len(s)) \X (1..Len(s)) :
            /\ p[1] <= p[2]
            /\ \A k \in p[1]..p[2] : s[k] # " "
            /\ (p[1] = 1 \/ s[p[1] - 1] = " ")
            /\ (p[2] = Len(s) \/ s[p[2] + 1] = " ")}}

RECURSIVE firstContained(_, _, _)
firstContained(text, list, k) ==
    IF k > Len(list) THEN NoSymptom
    ELSE IF includes(text, list[k]) THEN list[k]
    ELSE firstContained(text, list, k + 1)

\* a variant of the scoring loop that lets a later key replace an earlier one
\* of equal score
RECURSIVE bestOverlap_lastOnTies(_, _, _, _, _)
bestOverlap_lastOnTies(tokens, list, k, score, choice) ==
    IF k > Len(list) THEN choice
    ELSE LET overlap == Cardinality(wordsOf(list[k]) \cap tokens)
         IN  IF overlap >= score /\ overlap > 0
             THEN bestOverlap_lastOnTies(tokens, list, k + 1, overlap, list[k])
             ELSE bestOverlap_lastOnTies(tokens, list, k + 1, score, choice)

RECURSIVE bestOverlap(_, _, _, _, _)
bestOverlap(tokens, list, k, score, choice) ==
    IF k > Len(list) THEN choice
    ELSE LET overlap == Cardinality(wordsOf(list[k]) \cap tokens)
         IN  IF overlap > score
             THEN bestOverlap(tokens, list, k + 1, overlap, list[k])
             ELSE bestOverlap(tokens, list, k + 1, score, choice)

\* lines 405-421 for the lower-cased keys list and the lower-cased text
detectAmong(list, text) ==
    LET best == firstContained(text, list, 1)
    IN  IF best # NoSymptom THEN best
        ELSE bestOverlap(tokensOf(text), list, 1, 0, NoSymptom)

\* detectMainSymptom for the symptom column of the rows the query returns
detectIn(symptoms, message) ==
    detectAmong([k \in 1..Len(symptoms) |-> toLowerCase(symptoms[k])],
                toLowerCase(message))

detectMainSymptom(message) ==
    detectIn([k \in 1..Len(symptom_rules) |-> symptom_rules[k].symptom], message)

\* ---------------------------------------------------------------------
\* The model's raw output and JSON.parse
\* ---------------------------------------------------------------------

\* Raw output is a sequence of lexical tokens (white space between tokens is
\* not significant: JSON.parse skips it and the fence patterns skip it with
\* \s*).  A body token stands for the member list of a flat JSON object.
\* three backquotes, and three backquotes followed by the tag json
FENCE == "fence"
FENCEJSON == "fence-json"
TEXT == "text"
LBRACE == "{"
RBRACE == "}"
NULLTOK == "null"
NUMTOK == "42"

Steps ==
    <<"symptom_identification", "symptom_questions", "booking_offer",
      "session_summary", "completed">>

StepSet == {Steps[i] : i \in 1..Len(Steps)}

\* absent questionNumber
NoNumber == -1

\* an object without properties; also the property view of a number, whose
\* properties all read as undefined
emptyObject ==
    [kind |-> "object", message |-> None, type |-> None, nextStep |-> None,
     currentSymptom |-> NoSymptom, questionNumber |-> NoNumber,
     allQuestionsCompleted |-> FALSE, isEmergency |-> FALSE]

\* Member lists the model is seen to produce: a clarification request that
\* names the first step, an emergency notice, a summary, a closing reply,
\* and a reply with a step and a symptom of its own
Bodies == {"clarify", "emergency", "summary", "closing", "invented"}

bodyObject(b) ==
    CASE b = "clarify" ->
           [emptyObject EXCEPT !.message = "Could you describe your main symptom?",
                               !.type = "symptom_identification",
                               !.nextStep = "symptom_identification"]
      [] b = "emergency" ->
           [emptyObject EXCEPT !.message = "This may be an emergency. Please call for help now.",
                               !.type = "emergency",
                               !.isEmergency = TRUE]
      [] b = "summary" ->
           [emptyObject EXCEPT !.message = "Here is a summary of what you told me.",
                               !.type = "session_summary",
                               !.nextStep = "session_summary",
                               !.allQuestionsCompleted = TRUE]
      [] b = "closing" ->
           [emptyObject EXCEPT !.message = "Thank you. Take care.",
                               !.type = "completed",
                               !.nextStep = "completed"]
      [] b = "invented" ->
           [emptyObject EXCEPT !.message = "Let me check one more thing.",
                               !.type = "symptom_questions",
                               !.nextStep = "triage",
                               !.currentSymptom = DIZZINESS,
                               !.questionNumber = 9]

\* JSON.parse: ok = FALSE is the SyntaxError
parseFailure == [ok |-> FALSE, val |-> [emptyObject EXCEPT !.kind = "undefined"]]

JSONparse(toks) ==
    IF toks = <<NULLTOK>> THEN [ok |-> TRUE, val |-> [emptyObject EXCEPT !.kind = "null"]]
    ELSE IF toks = <<NUMTOK>> THEN [ok |-> TRUE, val |-> [emptyObject EXCEPT !.kind = "number"]]
    ELSE IF toks = <<LBRACE, RBRACE>> THEN [ok |-> TRUE, val |-> emptyObject]
    ELSE IF Len(toks) = 3 /\ toks[1] = LBRACE /\ toks[2] \in Bodies /\ toks[3] = RBRACE
         THEN [ok |-> TRUE, val |-> bodyObject(toks[2])]
    ELSE parseFailure

\* !value
falsy(val) == val.kind \in {"null", "undefined"}

isFence(tok) == tok \in {FENCE, FENCEJSON}

\* The two fence patterns of line 157, the tagged one first: the leftmost
\* opening fence that has a later fence; the lazy group ends at the nearest
\* one and starts after the white space that follows the opening
fenceMatch(raw) ==
    LET closes(p) == {q \in (p + 1)..Len(raw) : isFence(raw[q])}
        nearest(p) == CHOOSE q \in closes(p) : \A r \in closes(p) : q <= r
        tagged == {p \in 1..Len(raw) : raw[p] = FENCEJSON /\ closes(p) # {}}
        plain == {p \in 1..Len(raw) : isFence(raw[p]) /\ closes(p) # {}}
        first(S) == CHOOSE p \in S : \A r \in S : p <= r
    IN  IF tagged # {}
        THEN [found |-> TRUE,
              group |-> SubSeq(raw, first(tagged) + 1, nearest(first(tagged)) - 1)]
        ELSE IF plain # {}
        THEN [found |-> TRUE,
              group |-> (IF raw[first(plain)] = FENCEJSON THEN <<TEXT>> ELSE <<>>)
                        \o SubSeq(raw, first(plain) + 1, nearest(first(plain)) - 1)]
        ELSE [found |-> FALSE, group |-> <<>>]

\* rawContent.indexOf('{') and rawContent.lastIndexOf('}'), 0 for -1
indexOfBrace(raw) ==
    IF \E p \in 1..Len(raw) : raw[p] = LBRACE
    THEN CHOOSE p \in 1..Len(raw) : raw[p] = LBRACE /\ \A q \in 1..(p - 1) : raw[q] # LBRACE
    ELSE 0

lastIndexOfBrace(raw) ==
    IF \E p \in 1..Len(raw) : raw[p] = RBRACE
    THEN CHOOSE p \in 1..Len(raw) : raw[p] = RBRACE /\ \A q \in (p + 1)..Len(raw) : raw[q] # RBRACE
    ELSE 0

\* A candidate that goes on to the brace span when the fenced block does not
\* yield a value, instead of stopping at the fenced block.
repairCandidate_chained(rawContent, fence, first, last) ==
    IF /\ fence.found /\ fence.group # <<>>
       /\ JSONparse(fence.group).ok /\ ~falsy(JSONparse(fence.group).val)
    THEN [from |-> "fence", text |-> fence.group]
    ELSE IF first # 0 /\ last # 0 /\ last > first
    THEN [from |-> "span", text |-> SubSeq(rawContent, first, last)]
    ELSE [from |-> "span", text |-> <<>>]

\* Lines 156-166: the candidate text and the step that supplied it.  The
\* brace span is looked for only when the fence gave no candidate; text is
\* empty when neither did.
repairCandidate(rawContent, fence, first, last) ==
    IF fence.found /\ fence.group # <<>>
    THEN [from |-> "fence", text |-> fence.group]
    ELSE IF first # 0 /\ last # 0 /\ last > first
    THEN [from |-> "span", text |-> SubSeq(rawContent, first, last)]
    ELSE [from |-> "span", text |-> <<>>]

\* lines 167-171: from = "none" leaves aiResponse unset for the final fallback
repairResult(direct, candidate, parsed) ==
    IF direct.ok
    THEN [from |-> "direct", val |-> direct.val, ran |-> {"direct"}]
    ELSE [from |-> IF ~parsed.ok \/ falsy(parsed.val) THEN "none" ELSE candidate.from,
          val |-> IF parsed.ok THEN parsed.val ELSE parseFailure.val,
          ran |-> {"direct", "fence"}
                  \cup (IF candidate.from = "span" THEN {"span"} ELSE {})
                  \cup (IF ~parsed.ok \/ falsy(parsed.val) THEN {"fallback"} ELSE {})]

\* if (candidate) try { aiResponse = JSON.parse(candidate) } catch (_) {}
repairWith(direct, candidate) ==
    repairResult(direct, candidate,
                 IF candidate.text # <<>> THEN JSONparse(candidate.text) ELSE parseFailure)

\* The repair of lines 151-169: the value assigned to aiResponse, the step
\* that produced it and the steps that ran.
parseRepair(rawContent) ==
    repairWith(JSONparse(rawContent),
               repairCandidate(rawContent, fenceMatch(rawContent),
                               indexOfBrace(rawContent), lastIndexOfBrace(rawContent)))

\* ---------------------------------------------------------------------
\* Inputs of a turn
\* ---------------------------------------------------------------------

\* what patients type: a misspelt symptom, a greeting that names no symptom,
\* colloquial words for two other symptoms, and a symptom called severe
Utterances ==
    { <<"c","h","e","s","t"," ","p","a","n","e">>,
      <<"s","e","v","e","r","e"," ","c","h","e","s","t"," ","p","a","i","n">>,
      <<"h","e","l","l","o">>,
      <<"t","i","r","e","d">>,
      <<"d","i","z","z","y">> }

\* filterAndSpellCheck and detectMainSymptom on the utterances of the model
filteredOf == [u \in Utterances |-> filterAndSpellCheck(u)]

detectedOf == [u \in Utterances |-> detectMainSymptom(filteredOf[u])]

\* response.data.choices[0].message.content of the completions the model
\* returns: nothing, the JSON value null, an emergency notice, and a reply
\* that invents a step
RawContents ==
    { <<>>,
      <<NULLTOK>>,
      <<LBRACE, "emergency", RBRACE>>,
      <<LBRACE, "invented", RBRACE>> }

\* axios.post resolves with a completion or rejects
Inferences ==
    {[ok |-> TRUE, content |-> c] : c \in RawContents}
        \cup {[ok |-> FALSE, content |-> <<>>]}

\* ---------------------------------------------------------------------
\* getAIResponse (llm.js 20-274)
\* ---------------------------------------------------------------------

\* a || b on strings
Or(a, b) == IF a = None \/ a = "" THEN b ELSE a

\* list[idx], zero-based, undefined out of range
at(list, idx) == IF idx >= 0 /\ idx < Len(list) THEN list[idx + 1] ELSE None

\* aiResponse before any branch has set it
unset == parseFailure.val

troubleMessage == "I'm having trouble processing your request. Please try again."

closingMessage == "Thank you. I will summarize your information now and share a few appointment slots."

\* lines 58-75
symptomQuestionsFor(currentStep, currentSymptom) ==
    IF currentStep = "symptom_questions" /\ currentSymptom # NoSymptom
    THEN symptomQuestionsOf(currentSymptom)
    ELSE <<>>

nextSymptomQuestionFor(currentStep, symptomQuestions, asked) ==
    IF currentStep = "symptom_questions"
    THEN LET maxQ == Min(maxQuestionsPerSymptom,
                         IF Len(symptomQuestions) = 0 THEN 3 ELSE Len(symptomQuestions))
             idx == Min(asked, maxQ - 1)
         IN  Or(at(symptomQuestions, idx), Or(at(symptomQuestions, 0), tellMeMore))
    ELSE ""

\* lines 81-91: the first question of the detected symptom
detectionResponse(detected, followUps) ==
    IF detected # NoSymptom
    THEN [kind |-> "object",
          message |-> Or(at(followUps, 0), tellMeMore),
          type |-> "symptom_questions",
          nextStep |-> "symptom_questions",
          currentSymptom |-> detected,
          questionNumber |-> 1,
          allQuestionsCompleted |-> FALSE,
          isEmergency |-> FALSE]
    ELSE unset

\* lines 94-115: the next question of the rule, or the booking offer
followUpResponse(currentSymptom, asked, followUps) ==
    LET maxPerSymptom == maxQuestionsPerSymptom
        nextIdx == asked
        completed == nextIdx >= Min(maxPerSymptom,
                                    IF Len(followUps) = 0 THEN maxPerSymptom
                                    ELSE Len(followUps))
    IN  IF ~completed
        THEN [kind |-> "object",
              message |-> Or(at(followUps, nextIdx), Or(at(followUps, 0), tellMeMore)),
              type |-> "symptom_questions",
              nextStep |-> "symptom_questions",
              currentSymptom |-> currentSymptom,
              questionNumber |-> nextIdx + 1,
              allQuestionsCompleted |-> FALSE,
              isEmergency |-> FALSE]
        ELSE [kind |-> "object",
              message |-> closingMessage,
              type |-> "booking_offer",
              nextStep |-> "booking_offer",
              currentSymptom |-> currentSymptom,
              questionNumber |-> IF asked # 0 THEN asked ELSE maxPerSymptom,
              allQuestionsCompleted |-> TRUE,
              isEmergency |-> FALSE]

\* lines 77-116: the deterministic control; detected is the symptom that
\* detectMainSymptom finds in the filtered message
deterministicResponse(currentStep, currentSymptom, asked, symptomQuestions, detected) ==
    IF currentStep = "symptom_identification" \/ currentSymptom = NoSymptom
    THEN detectionResponse(detected, getSymptomQuestions(detected))
    ELSE IF currentStep = "symptom_questions" /\ currentSymptom # NoSymptom
    THEN followUpResponse(currentSymptom, asked,
                          IF Len(symptomQuestions) # 0 THEN symptomQuestions
                          ELSE getSymptomQuestions(currentSymptom))
    ELSE unset

\* lines 170-183: the deterministic single-question response
fallbackResponse(currentSymptom, asked, symptomQuestions, nextSymptomQuestion) ==
    LET maxPerSymptom == maxQuestionsPerSymptom
        nextQNum == Min(asked + 1, maxPerSymptom)
        completed == \/ nextQNum >= maxPerSymptom
                     \/ (Len(symptomQuestions) # 0 /\ nextQNum >= Len(symptomQuestions))
    IN  [kind |-> "object",
         message |-> nextSymptomQuestion,
         type |-> "symptom_questions",
         nextStep |-> IF completed THEN "session_summary" ELSE "symptom_questions",
         currentSymptom |-> currentSymptom,
         questionNumber |-> nextQNum,
         allQuestionsCompleted |-> completed,
         isEmergency |-> FALSE]

\* lines 187-205
updatedSessionOf(sessionData, aiResponse, currentStep, currentSymptom, asked, filteredMessage) ==
    [sessionData EXCEPT
        !.currentStep = Or(aiResponse.nextStep, currentStep),
        !.currentSymptom = IF aiResponse.currentSymptom # NoSymptom
                           THEN aiResponse.currentSymptom ELSE currentSymptom,
        !.questionsAskedForCurrentSymptom =
            IF aiResponse.questionNumber # NoNumber THEN aiResponse.questionNumber ELSE asked,
        !.allPatientAnswers = Append(sessionData.allPatientAnswers,
            [question |-> Or(sessionData.lastQuestion,
                             IF aiResponse.type = "symptom_questions"
                             THEN "Initial symptom question"
                             ELSE "Initial symptom description"),
             answer |-> filteredMessage,
             symptom |-> IF aiResponse.currentSymptom # NoSymptom
                         THEN aiResponse.currentSymptom ELSE currentSymptom]),
        !.lastQuestion = aiResponse.message,
        !.isEmergency = aiResponse.isEmergency,
        !.allQuestionsCompleted = aiResponse.allQuestionsCompleted]

\* lines 187-273: the reply and the session data to save once aiResponse is
\* chosen.  threw = TRUE is the catch of line 266: the reply is the generic
\* error and nothing is written.
settled(sessionData, inference, filteredMessage, assisted, repair, aiResponse, threw) ==
    [threw |-> threw,
     path |-> IF ~assisted THEN "deterministic"
              ELSE IF ~inference.ok THEN "rejected"
              ELSE IF repair.from = "none" THEN "fallback"
              ELSE "model",
     ran |-> IF assisted /\ inference.ok THEN repair.ran ELSE {},
     from |-> IF assisted /\ inference.ok THEN repair.from ELSE "none",
     reply |-> IF threw
               THEN [emptyObject EXCEPT
                        !.message = troubleMessage,
                        !.type = "error",
                        !.nextStep = Or(sessionData.currentStep, "symptom_identification")]
               ELSE aiResponse,
     updatedSession |-> IF threw THEN sessionData
                        ELSE updatedSessionOf(sessionData, aiResponse,
                                              Or(sessionData.currentStep,
                                                 "symptom_identification"),
                                              sessionData.currentSymptom,
                                              sessionData.questionsAskedForCurrentSymptom,
                                              filteredMessage),
     interaction |-> [question |-> Or(sessionData.lastQuestion,
                                      IF aiResponse.type = "symptom_questions"
                                      THEN "Initial symptom question"
                                      ELSE "Initial symptom"),
                      answer |-> filteredMessage,
                      question_type |-> Or(sessionData.currentStep,
                                           "symptom_identification")]]

\* lines 118-185: aiResponse is the deterministic response when there is one,
\* else what the repair of the completion gives, else the fallback; a
\* rejected call and a reply that is null end in the catch
assistedBy(sessionData, inference, filteredMessage, assisted, repair, aiResponse) ==
    settled(sessionData, inference, filteredMessage, assisted, repair, aiResponse,
            assisted /\ (~inference.ok \/ aiResponse.kind = "null"))

responseOf(sessionData, inference, filteredMessage, deterministic, repair, fallback) ==
    assistedBy(sessionData, inference, filteredMessage,
               deterministic.kind = "undefined", repair,
               IF deterministic.kind # "undefined" THEN deterministic
               ELSE IF repair.from = "none" THEN fallback
               ELSE repair.val)

\* lines 50-116 with the questions of the current symptom at hand
getAIResponseWith(message, sessionData, inference, currentStep, symptomQuestions) ==
    responseOf(sessionData, inference, filteredOf[message],
               deterministicResponse(currentStep, sessionData.currentSymptom,
                                     sessionData.questionsAskedForCurrentSymptom,
                                     symptomQuestions, detectedOf[message]),
               parseRepair(inference.content),
               fallbackResponse(sessionData.currentSymptom,
                                sessionData.questionsAskedForCurrentSymptom,
                                symptomQuestions,
                                nextSymptomQuestionFor(currentStep, symptomQuestions,
                                    sessionData.questionsAskedForCurrentSymptom)))

\* The whole function up to its writes.
getAIResponse(message, sessionData, inference) ==
    getAIResponseWith(message, sessionData, inference,
                      Or(sessionData.currentStep, "symptom_identification"),
                      symptomQuestionsFor(Or(sessionData.currentStep, "symptom_identification"),
                                          sessionData.currentSymptom))

(***************************************************************************)
(* Appointment slots (calendar.js, reproduced in README.md).               *)
(*                                                                         *)
(* An instant is a number of minutes since 00:00 of a Monday in the        *)
(* server's local time (a zone without daylight saving, as the clinic's    *)
(* en-IN locale suggests); a Date is its instant, and toISOString names    *)
(* the same instant.  The display label of a slot is left out.             *)
(***************************************************************************)
minutesPerDay == 1440

slotMinutes == 30

maxCandidates == 10

topSlots == 3

dayStartHour == 9

dayEndHour == 18

\* an instant from a day number (0 = the first Monday), an hour and a minute
at_(day, hour, minute) == day * minutesPerDay + hour * 60 + minute

\* Date.getDay: 0 = Sunday .. 6 = Saturday
getDay(t) == ((t \div minutesPerDay) + 1) % 7

getHours(t) == (t % minutesPerDay) \div 60

\* current.setDate(current.getDate() + 1); current.setHours(hour, 0, 0, 0)
nextDayAt(t, hour) == at_((t \div minutesPerDay) + 1, hour, 0)

isWeekend(t) == getDay(t) = 0 \/ getDay(t) = 6

\* a variant that tests only whether the slot begins inside a busy interval
isConflict_startInside(slotStart, slotEnd, busySlots) ==
    \E k \in 1..Len(busySlots) :
        slotStart < busySlots[k].end /\ slotStart >= busySlots[k].start

\* busySlots.some(busy => slotStart < busyEnd && slotEnd > busyStart)
isConflict(slotStart, slotEnd, busySlots) ==
    \E k \in 1..Len(busySlots) :
        slotStart < busySlots[k].end /\ slotEnd > busySlots[k].start

\* the body of "if (hour >= 9 && hour < 18)": the slots after the candidate
\* at current has been examined
examined(current, busySlots, slots) ==
    IF getHours(current) >= dayStartHour /\ getHours(current) < dayEndHour
          /\ ~isConflict(current, current + slotMinutes, busySlots)
    THEN Append(slots, [start |-> current, end |-> current + slotMinutes])
    ELSE slots

\* a variant of the weekend skip that keeps the time of day
skipWeekend_keepTime(current) == current + minutesPerDay

\* the weekend branch: the next day at 09:00
skipWeekend(current) == nextDayAt(current, dayStartHour)

\* a variant that stays at the day's last cursor instead of moving to the
\* next day's 09:00
advanced_sameDay(current) ==
    IF getHours(current + slotMinutes) >= dayEndHour
    THEN current
    ELSE current + slotMinutes

\* current.setMinutes(current.getMinutes() + 30), then the jump to the next
\* day's 09:00 when the hour is 18 or later
advanced(current) ==
    IF getHours(current + slotMinutes) >= dayEndHour
    THEN nextDayAt(current + slotMinutes, dayStartHour)
    ELSE current + slotMinutes

\* the while loop of generateAvailableSlots from a cursor and the slots
\* accumulated so far
RECURSIVE walk(_, _, _, _)
walk(current, end, busySlots, slots) ==
    IF ~(current < end /\ Len(slots) < maxCandidates) THEN slots
    ELSE IF isWeekend(current)
         THEN walk(skipWeekend(current), end, busySlots, slots)
         ELSE walk(advanced(current), end, busySlots,
                   examined(current, busySlots, slots))

\* slots.slice(0, 3)
slice(slots, n) == SubSeq(slots, 1, Min(n, Len(slots)))

\* a variant that returns the last three accumulated slots
generateAvailableSlots_latest(startDate, endDate, busySlots) ==
    LET slots == walk(startDate, endDate, busySlots, <<>>)
    IN  SubSeq(slots, Len(slots) - Min(topSlots, Len(slots)) + 1, Len(slots))

generateAvailableSlots(startDate, endDate, busySlots) ==
    slice(walk(startDate, endDate, busySlots, <<>>), topSlots)

\* getDefaultSlots: tomorrow at 10:00, 12:00 and 14:00, thirty minutes each
getDefaultSlots(now) ==
    [i \in 1..3 |->
        [start |-> nextDayAt(now, 10 + (i - 1) * 2),
         end |-> nextDayAt(now, 10 + (i - 1) * 2) + slotMinutes]]

(***************************************************************************)
(* Slots for the booking offer (llm.js 231-262) and for GET                *)
(* /appointments/slots (symptom_routes.js 527-575).  A calendar is what    *)
(* the request finds around it: the clock, the outcome of the doctors      *)
(* query and, for each doctor row, the outcome of the free/busy query.     *)
(***************************************************************************)
MaxDoctors == 1

\* the range both callers ask for by default: from now to three days later
defaultDays == 3

\* a doctor whose free/busy query fails, one without engagements, and one
\* engaged from now to the end of the fourth day
Availabilities(now) ==
    {[ok |-> FALSE, busy |-> <<>>],
     [ok |-> TRUE, busy |-> <<>>],
     [ok |-> TRUE, busy |-> <<[start |-> now, end |-> now + 4 * minutesPerDay]>>]}

\* a Monday morning and a Friday just before closing
Nows == {at_(0, 10, 0), at_(4, 17, 45)}

\* the doctors query fails, or returns up to MaxDoctors rows
Calendars ==
    UNION {{[now |-> now, doctorsOk |-> FALSE, doctors |-> <<>>]}
           \cup {[now |-> now, doctorsOk |-> TRUE, doctors |-> rows] :
                    rows \in UNION {[1..n -> Availabilities(now)] : n \in 0..MaxDoctors}} :
           now \in Nows}

\* a calendar that is not consulted
idleCalendar == [now |-> 0, doctorsOk |-> TRUE, doctors |-> <<>>]

\* getFreeBusySlots (README.md 161-181): the generated slots, or the default
\* slots when authorisation or the query fails
getFreeBusySlots(availability, now, startDate, endDate) ==
    IF availability.ok
    THEN generateAvailableSlots(startDate, endDate, availability.busy)
    ELSE getDefaultSlots(now)

noDoctor == 0

\* the comparison in the loop over the doctors: a doctor replaces the best
\* so far when it has more slots
betterOf(best, doctor, slots) ==
    IF (Len(best.slots) = 0 /\ Len(slots) # 0) \/ Len(slots) > Len(best.slots)
    THEN [doctor |-> doctor, slots |-> slots]
    ELSE best

RECURSIVE pickBest(_, _, _, _, _)
pickBest(calendar, k, startDate, endDate, best) ==
    IF k > Len(calendar.doctors) THEN best
    ELSE pickBest(calendar, k + 1, startDate, endDate,
                  betterOf(best, k,
                           getFreeBusySlots(calendar.doctors[k], calendar.now,
                                            startDate, endDate)))

\* finalSlots = (best.slots?.length ? best.slots : getDefaultSlots()).slice(0, 3)
finalSlots(best, now) ==
    [doctor |-> best.doctor,
     slots |-> slice(IF Len(best.slots) # 0 THEN best.slots ELSE getDefaultSlots(now),
                     topSlots)]

\* the doctor with the most slots over the next days, with the slots offered
autoPick(calendar, days) ==
    finalSlots(pickBest(calendar, 1, calendar.now,
                        calendar.now + days * minutesPerDay,
                        [doctor |-> noDoctor, slots |-> <<>>]),
               calendar.now)

\* the test of llm.js 232
offersBooking(aiResponse) ==
    aiResponse.nextStep = "booking_offer" \/ aiResponse.allQuestionsCompleted

\* aiResponse.options, suggestedDoctorId
attachedOf(picked) ==
    [attached |-> TRUE, options |-> picked.slots, suggestedDoctorId |-> picked.doctor]

\* llm.js 231-262: what is attached to the reply.  A failure of the doctors
\* query is caught and leaves an empty list of options.
attachSlots(aiResponse, calendar) ==
    IF ~offersBooking(aiResponse)
    THEN [attached |-> FALSE, options |-> <<>>, suggestedDoctorId |-> noDoctor]
    ELSE IF ~calendar.doctorsOk
    THEN [attached |-> TRUE, options |-> <<>>, suggestedDoctorId |-> noDoctor]
    ELSE attachedOf(autoPick(calendar, defaultDays))

\* ---------------------------------------------------------------------
\* State: the tables chat_sessions and chat_interactions
\* ---------------------------------------------------------------------

\* bounds of the exploration
MaxRequests == 5
MaxSessions == 2

Patients == {"p1"}

VARIABLES
    chat_sessions,      \* rows in session_id order: session_id = index
    chat_interactions,  \* rows in insertion order
    requests,           \* number of requests handled so far
    last,               \* the last request handled and what it did
    inflight            \* the requests being handled, in order of arrival

vars == <<chat_sessions, chat_interactions, requests, last, inflight>>

\* session_data written by chat/start (routes 469-477)
initialSessionData ==
    [currentStep |-> "symptom_identification",
     questionsAskedForCurrentSymptom |-> 0,
     allPatientAnswers |-> <<>>,
     currentSymptom |-> NoSymptom,
     lastQuestion |-> None,
     isEmergency |-> FALSE,
     allQuestionsCompleted |-> FALSE,
     messages |-> <<>>]

notCalled == [ok |-> FALSE, content |-> <<>>]

noRequest ==
    [op |-> "none", patientId |-> "p1", sessionId |-> 0, message |-> <<>>,
     inference |-> notCalled, sessionData |-> initialSessionData,
     threw |-> FALSE, path |-> "none", ran |-> {}, from |-> "none",
     reply |-> emptyObject, written |-> {}, updated |-> initialSessionData,
     calendar |-> idleCalendar, attached |-> FALSE, options |-> <<>>,
     suggestedDoctorId |-> noDoctor, doctorId |-> noDoctor, days |-> defaultDays]

Init ==
    /\ chat_sessions = <<>>
    /\ chat_interactions = <<>>
    /\ requests = 0
    /\ last = noRequest
    /\ inflight = <<>>

activeOf(rows, patientId) ==
    {s \in 1..Len(rows) : rows[s].patient_id = patientId /\ rows[s].status = "active"}

\* POST /chat/start (routes 432-501)
ChatStart(patientId) ==
    /\ requests < MaxRequests
    /\ Len(chat_sessions) < MaxSessions
    /\ chat_sessions' =
          Append([s \in 1..Len(chat_sessions) |->
                     IF s \in activeOf(chat_sessions, patientId)
                     THEN [chat_sessions[s] EXCEPT !.status = "completed"]
                     ELSE chat_sessions[s]],
                 [patient_id |-> patientId,
                  status |-> "active",
                  session_data |-> initialSessionData,
                  total_questions_asked |-> 0])
    /\ last' = [noRequest EXCEPT !.op = "start", !.patientId = patientId,
                                 !.sessionId = Len(chat_sessions) + 1]
    /\ requests' = requests + 1
    /\ UNCHANGED <<chat_interactions, inflight>>

\* POST /chat/complete (routes 504-524)
ChatComplete(sessionId) ==
    /\ requests < MaxRequests
    /\ sessionId \in 1..Len(chat_sessions)
    /\ chat_sessions[sessionId].status = "active"
    /\ chat_sessions' = [chat_sessions EXCEPT ![sessionId].status = "completed"]
    /\ last' = [noRequest EXCEPT !.op = "complete", !.sessionId = sessionId,
                                 !.patientId = chat_sessions[sessionId].patient_id]
    /\ requests' = requests + 1
    /\ UNCHANGED <<chat_interactions, inflight>>

\* newMsgs.slice(-maxMsgs)
trimmed(msgs) ==
    IF Len(msgs) <= maxConversationMessages THEN msgs
    ELSE SubSeq(msgs, Len(msgs) - maxConversationMessages + 1, Len(msgs))

\* UPDATE chat_sessions SET session_data = {...prevData, messages} WHERE session_id
appendMessage(rows, sessionId, role, content) ==
    [rows EXCEPT ![sessionId].session_data.messages =
        trimmed(Append(rows[sessionId].session_data.messages,
                       [role |-> role, content |-> content]))]

\* the writes of getAIResponse (lines 207-229): every active session of the
\* patient receives the new session_data and counts one more question
saveTurn(rows, patientId, updatedSession) ==
    [s \in 1..Len(rows) |->
        IF s \in activeOf(rows, patientId)
        THEN [rows[s] EXCEPT !.session_data = updatedSession,
                             !.total_questions_asked = @ + 1]
        ELSE rows[s]]

\* the inference call is made only on the model-assisted path
inferencesFor(message, sessionData) ==
    IF getAIResponse(message, sessionData, notCalled).path = "deterministic"
    THEN {notCalled}
    ELSE Inferences

\* One patient message from arrival to reply, for a given outcome of the
\* inference call: socket 'patient_message' (server 186-266), POST
\* /api/chat/message (server 68-131), processPatientMessage (server 288-303)
\* and the writes of getAIResponse, with the slots getAIResponse attaches to a
\* reply that offers booking, for a calendar among calendars
Turn(patientId, sessionId, message, inference, calendars) ==
    /\ requests < MaxRequests
    /\ sessionId \in 1..Len(chat_sessions)
    /\ \E afterUser \in {appendMessage(chat_sessions, sessionId, "user", message)} :
       \E r \in {getAIResponse(message, afterUser[sessionId].session_data, inference)} :
       \E active \in {activeOf(afterUser, patientId)} :
       \E calendar \in (IF ~r.threw /\ Cardinality(active) <= 1 /\ offersBooking(r.reply)
                        THEN calendars ELSE {idleCalendar}) :
       \E slots \in {attachSlots(r.reply, calendar)} :
          LET sessionData == afterUser[sessionId].session_data
              \* the scalar subquery of the INSERT fails on several rows
              threw == r.threw \/ Cardinality(active) > 1
              reply == IF threw /\ ~r.threw
                       THEN [emptyObject EXCEPT
                                !.message = troubleMessage,
                                !.type = "error",
                                !.nextStep = Or(sessionData.currentStep,
                                                "symptom_identification")]
                       ELSE r.reply
              afterTurn == IF threw THEN afterUser
                           ELSE saveTurn(afterUser, patientId, r.updatedSession)
          IN  /\ chat_sessions' = appendMessage(afterTurn, sessionId, "assistant",
                                                Or(reply.message, ""))
              /\ chat_interactions' =
                    IF threw THEN chat_interactions
                    ELSE Append(chat_interactions,
                                [session_id |-> IF active = {} THEN 0
                                                ELSE CHOOSE s \in active : TRUE,
                                 question |-> r.interaction.question,
                                 answer |-> r.interaction.answer,
                                 question_type |-> r.interaction.question_type])
              /\ last' = [op |-> "message", patientId |-> patientId,
                          sessionId |-> sessionId, message |-> message,
                          inference |-> inference, sessionData |-> sessionData,
                          threw |-> threw, path |-> r.path, ran |-> r.ran,
                          from |-> r.from, reply |-> reply,
                          written |-> IF threw THEN {} ELSE active,
                          updated |-> IF threw THEN sessionData ELSE r.updatedSession,
                          calendar |-> calendar,
                          attached |-> ~threw /\ slots.attached,
                          options |-> IF threw THEN <<>> ELSE slots.options,
                          suggestedDoctorId |-> IF threw THEN noDoctor
                                                ELSE slots.suggestedDoctorId]
    /\ requests' = requests + 1
    /\ UNCHANGED inflight

\* the values of the query parameter days: absent (the default) and 0
Days == {defaultDays, 0}

\* the response of GET /appointments/slots (routes 527-575) for a doctorId
\* (noDoctor: absent or 'auto') and a number of days: failed = TRUE is the
\* 500 response of the catch, which carries no slots
slotsResponse(doctorId, days, calendar) ==
    IF ~calendar.doctorsOk
    THEN [failed |-> TRUE, slots |-> <<>>, doctor |-> noDoctor]
    ELSE IF doctorId = noDoctor
    THEN [failed |-> FALSE,
          slots |-> autoPick(calendar, days).slots,
          doctor |-> autoPick(calendar, days).doctor]
    ELSE IF doctorId > Len(calendar.doctors)
    THEN [failed |-> FALSE, slots |-> getDefaultSlots(calendar.now), doctor |-> noDoctor]
    ELSE [failed |-> FALSE,
          slots |-> getFreeBusySlots(calendar.doctors[doctorId], calendar.now,
                                     calendar.now,
                                     calendar.now + days * minutesPerDay),
          doctor |-> doctorId]

\* GET /appointments/slots
SlotsEndpoint(doctorId, days, calendar) ==
    /\ requests < MaxRequests
    /\ \E response \in {slotsResponse(doctorId, days, calendar)} :
          last' = [noRequest EXCEPT !.op = "slots", !.calendar = calendar,
                                    !.doctorId = doctorId, !.days = days,
                                    !.threw = response.failed,
                                    !.options = response.slots,
                                    !.suggestedDoctorId = response.doctor]
    /\ requests' = requests + 1
    /\ UNCHANGED <<chat_sessions, chat_interactions, inflight>>

PatientMessage(patientId, sessionId, message) ==
    /\ sessionId \in 1..Len(chat_sessions)
    /\ \E inference \in inferencesFor(message,
              appendMessage(chat_sessions, sessionId, "user", message)[sessionId].session_data) :
          Turn(patientId, sessionId, message, inference, Calendars)

Next ==
    \/ \E p \in Patients : ChatStart(p)
    \/ \E s \in 1..MaxSessions : ChatComplete(s)
    \/ \E p \in Patients, s \in 1..MaxSessions, m \in Utterances : PatientMessage(p, s, m)
    \* the slots endpoint neither reads nor writes the tables: it is explored
    \* as a first request
    \/ /\ last.op = "none"
       /\ \E doctorId \in 0..(MaxDoctors + 1), days \in Days, calendar \in Calendars :
             SlotsEndpoint(doctorId, days, calendar)

Spec == Init /\ [][Next]_vars

\* ---------------------------------------------------------------------
\* The repair chain on every short completion
\* ---------------------------------------------------------------------

MaxRawLen == 5

Tokens == {FENCE, FENCEJSON, TEXT, LBRACE, RBRACE, NULLTOK, "summary"}

RawTexts == UNION {[1..n -> Tokens] : n \in 0..MaxRawLen}

\* the first message of a session, naming no symptom, answered by the model
\* with the completion raw
Completion(message, raw) ==
    /\ last.op = "start"
    /\ detectedOf[message] = NoSymptom
    /\ Turn(last.patientId, last.sessionId, message, [ok |-> TRUE, content |-> raw],
            {idleCalendar})

NextParse ==
    \/ \E p \in Patients : chat_sessions = <<>> /\ ChatStart(p)
    \/ /\ last.op = "start"
       /\ \E m \in Utterances, raw \in RawTexts : Completion(m, raw)

SpecParse == Init /\ [][NextParse]_vars

\* ---------------------------------------------------------------------
\* Properties
\* ---------------------------------------------------------------------

\* C1: once a session's stored isEmergency is true it is true after every
\* later request
C1_EmergencySticky ==
    [][\A s \in 1..Len(chat_sessions) :
          chat_sessions[s].session_data.isEmergency
              => chat_sessions'[s].session_data.isEmergency]_vars

\* C2: a turn whose inference call returned a completion, whatever its text,
\* does not end in the catch, replies with an object and saves a session
\* state whose currentStep is one of the five steps
C2_CompletionAlwaysResolves ==
    (last.op = "message" /\ last.path \in {"model", "fallback"})
        => /\ ~last.threw
           /\ last.reply.kind = "object"
           /\ last.reply.type # "error"
           /\ last.updated.currentStep \in StepSet

C4_InferenceFailureAbsorbed ==
    (last.op = "message" /\ last.path = "rejected")
        => /\ ~last.threw
           /\ last.reply.type # "error"
           /\ last.updated # last.sessionData

\* C5: a session starts in symptom_identification, its currentStep never moves
\* to an earlier step, and completed never changes
C5_StepsNeverGoBack ==
    [][/\ \A s \in (Len(chat_sessions) + 1)..Len(chat_sessions') :
             chat_sessions'[s].session_data.currentStep = "symptom_identification"
       /\ \A s \in 1..Len(chat_sessions) :
             LET rank(x) == CHOOSE i \in 1..Len(Steps) : Steps[i] = x
                 before == chat_sessions[s].session_data.currentStep
                 after == chat_sessions'[s].session_data.currentStep
             IN  /\ (before \in StepSet /\ after \in StepSet) => rank(after) >= rank(before)
                 /\ before = "completed" => after = "completed"]_vars

\* C6: a turn saved into a session that is in symptom_questions either stays
\* there with the cursor one higher or moves to booking_offer, and a session
\* that has left symptom_questions never re-enters it for the same symptom
C6_CursorThenBooking ==
    [][\A s \in 1..Len(chat_sessions) :
          LET d == chat_sessions[s].session_data
              e == chat_sessions'[s].session_data
          IN  /\ (last'.op = "message" /\ s \in last'.written
                    /\ d.currentStep = "symptom_questions")
                    => \/ /\ e.currentStep = "symptom_questions"
                          /\ e.questionsAskedForCurrentSymptom =
                                d.questionsAskedForCurrentSymptom + 1
                       \/ e.currentStep = "booking_offer"
              /\ (d.currentStep \in {"booking_offer", "session_summary", "completed"}
                    /\ d.currentSymptom # NoSymptom)
                    => ~(e.currentStep = "symptom_questions"
                           /\ e.currentSymptom = d.currentSymptom)]_vars

\* C7: the stored cursor of a session never exceeds the smaller of the
\* configured maximum and the number of follow-up questions of the rule of
\* its current symptom
C7_CursorWithinCap ==
    \A s \in 1..Len(chat_sessions) :
        LET d == chat_sessions[s].session_data
        IN  (d.currentSymptom # NoSymptom /\ rulesLike(d.currentSymptom) # <<>>)
                => d.questionsAskedForCurrentSymptom <=
                      Min(maxQuestionsPerSymptom,
                          Len(rulesLike(d.currentSymptom)[1].follow_up_questions))

\* C8: every request leaves the allPatientAnswers of every session with its
\* previous value as a prefix
C8_AnswersAppendOnly ==
    [][\A s \in 1..Len(chat_sessions) :
          LET old == chat_sessions[s].session_data.allPatientAnswers
              new == chat_sessions'[s].session_data.allPatientAnswers
          IN  Len(old) <= Len(new) /\ SubSeq(new, 1, Len(old)) = old]_vars

\* C9: every patient message, on every branch, saves the answers read plus
\* exactly one entry: the normalized utterance, labelled with the lastQuestion
\* the previous turn stored
C9_EveryAnswerRecorded ==
    last.op = "message"
        => /\ last.written # {}
           /\ Len(last.updated.allPatientAnswers) = Len(last.sessionData.allPatientAnswers) + 1
           /\ SubSeq(last.updated.allPatientAnswers, 1, Len(last.sessionData.allPatientAnswers))
                 = last.sessionData.allPatientAnswers
           /\ LET entry == last.updated.allPatientAnswers[Len(last.updated.allPatientAnswers)]
              IN  /\ entry.answer = filteredOf[last.message]
                  /\ last.sessionData.lastQuestion \notin {None, ""}
                        => entry.question = last.sessionData.lastQuestion

\* C10: a turn in symptom_identification whose utterance matches no symptom
\* saves currentStep = symptom_identification
C10_NoMatchStays ==
    (/\ last.op = "message"
     /\ ~last.threw
     /\ last.sessionData.currentStep = "symptom_identification"
     /\ detectedOf[last.message] = NoSymptom)
        => last.updated.currentStep = "symptom_identification"

\* C11: a turn in symptom_identification whose filtered message names the
\* catalog symptom s is not lost, saves currentStep symptom_questions,
\* currentSymptom s and cursor 1 (in the session it was sent to, when that
\* session is active), and replies with the first question of the rule of s
C11_DetectionAsksFirst ==
    (/\ last.op = "message"
     /\ last.sessionData.currentStep = "symptom_identification"
     /\ detectedOf[last.message] # NoSymptom)
        => LET s == detectedOf[last.message]
               rule == CHOOSE r \in {symptom_rules[k] : k \in 1..Len(symptom_rules)} :
                          r.symptom = s
               saved == chat_sessions[last.sessionId].session_data
           IN  /\ ~last.threw
               /\ last.updated.currentStep = "symptom_questions"
               /\ last.updated.currentSymptom = s
               /\ last.updated.questionsAskedForCurrentSymptom = 1
               /\ rule.follow_up_questions # <<>>
               /\ last.reply.message = rule.follow_up_questions[1]
               /\ chat_sessions[last.sessionId].status = "active"
                     => /\ saved.currentStep = "symptom_questions"
                        /\ saved.currentSymptom = s
                        /\ saved.questionsAskedForCurrentSymptom = 1

\* C12: once a session's stored currentSymptom is set, every later request
\* leaves it equal to the same value
C12_SymptomImmutable ==
    [][\A s \in 1..Len(chat_sessions) :
          chat_sessions[s].session_data.currentSymptom # NoSymptom
              => chat_sessions'[s].session_data.currentSymptom
                    = chat_sessions[s].session_data.currentSymptom]_vars

\* ---------------------------------------------------------------------
\* determinePriority (notify.js 135-148)
\* ---------------------------------------------------------------------

\* A nullable text: <<>> is null or undefined, <<t>> is the string t
NullText == <<>>

\* (x || '') on a nullable text
textOr(x) == IF x = NullText THEN <<>> ELSE x[1]

emergencyKeywords ==
    <<<<"s","e","v","e","r","e"," ","c","h","e","s","t"," ","p","a","i","n">>,
      <<"c","r","u","s","h","i","n","g"," ","p","a","i","n">>,
      <<"c","a","n","n","o","t"," ","b","r","e","a","t","h","e">>,
      <<"u","n","c","o","n","s","c","i","o","u","s">>,
      <<"f","a","i","n","t","i","n","g">>,
      <<"s","e","v","e","r","e">>,
      <<"e","x","t","r","e","m","e">>,
      <<"u","n","b","e","a","r","a","b","l","e">>,
      <<"e","m","e","r","g","e","n","c","y">>,
      <<"b","l","u","e"," ","l","i","p","s">>>>

highPriorityKeywords ==
    <<<<"c","h","e","s","t"," ","p","a","i","n">>,
      <<"s","h","o","r","t","n","e","s","s"," ","o","f"," ","b","r","e","a","t","h">>,
      <<"p","a","l","p","i","t","a","t","i","o","n","s">>,
      <<"d","i","z","z","i","n","e","s","s">>,
      <<"r","a","d","i","a","t","i","n","g"," ","p","a","i","n">>,
      <<"s","w","e","a","t","i","n","g">>,
      <<"n","a","u","s","e","a"," ","w","i","t","h"," ","c","h","e","s","t"," ","p","a","i","n">>>>

\* keywords.some(k => combinedText.includes(k))
someIncluded(keywords, combinedText) ==
    \E k \in 1..Len(keywords) : includes(combinedText, keywords[k])

\* a variant that tests the high-priority tier first
priorityOf_highFirst(combinedText) ==
    IF someIncluded(highPriorityKeywords, combinedText) THEN "HIGH"
    ELSE IF someIncluded(emergencyKeywords, combinedText) THEN "URGENT"
    ELSE "NORMAL"

\* the two tier tests, in the order of lines 146-148
priorityOf(combinedText) ==
    IF someIncluded(emergencyKeywords, combinedText) THEN "URGENT"
    ELSE IF someIncluded(highPriorityKeywords, combinedText) THEN "HIGH"
    ELSE "NORMAL"

determinePriority(symptoms, aiHints) ==
    priorityOf(toLowerCase(textOr(symptoms) \o <<" ">> \o textOr(aiHints)))

\* C13: after a turn, when an answer the session has accumulated is
\* classified URGENT by determinePriority, the reply and the session data of
\* the turn carry isEmergency = true
C13_EmergencyStamped ==
    (last.op = "message")
        => \A k \in 1..Len(last.updated.allPatientAnswers) :
              determinePriority(<<last.updated.allPatientAnswers[k].answer>>, NullText) = "URGENT"
                  => /\ last.reply.isEmergency
                     /\ last.updated.isEmergency

\* the instants the cursor of the loop takes, had the loop no limit on the
\* number of accumulated slots
RECURSIVE cursors(_, _)
cursors(current, end) ==
    IF ~(current < end) THEN <<>>
    ELSE <<current>> \o cursors(IF isWeekend(current) THEN skipWeekend(current)
                                ELSE advanced(current), end)

(***************************************************************************)
(* SpecSlots: generateAvailableSlots applied to start instants on every    *)
(* day of a week, at aligned and unaligned times of day, to ranges from    *)
(* empty to the three days the callers ask for and beyond, and to busy     *)
(* lists of up to MaxBusy intervals.                                       *)
(***************************************************************************)
MaxDay == 6

MaxBusy == 2

\* times of day, in minutes
StartTimes == {8 * 60 + 45, 10 * 60, 10 * 60 + 17, 17 * 60 + 45, 23 * 60 + 50}

\* endDate - startDate, in minutes
Ranges == {0, 45, minutesPerDay, 3 * minutesPerDay, 3 * minutesPerDay + 10 * 60}

\* busy intervals around the day the range starts on: that day's working
\* hours, half an hour of its morning, five minutes inside a morning slot,
\* the morning of the day after, and the morning of the second Monday
BusyIntervals(day) ==
    {[start |-> at_(day, 9, 0), end |-> at_(day, 18, 0)],
     [start |-> at_(day, 10, 30), end |-> at_(day, 11, 0)],
     [start |-> at_(day, 10, 20), end |-> at_(day, 10, 25)],
     [start |-> at_(day + 1, 9, 0), end |-> at_(day + 1, 12, 0)],
     [start |-> at_(7, 9, 0), end |-> at_(7, 9, 30)]}

BusyLists(day) == UNION {[1..n -> BusyIntervals(day)] : n \in 0..MaxBusy}

GenerateSlots(startDate, endDate, busySlots) ==
    /\ last' = [op |-> "generateAvailableSlots", startDate |-> startDate,
                endDate |-> endDate, busySlots |-> busySlots,
                slots |-> generateAvailableSlots(startDate, endDate, busySlots)]
    /\ UNCHANGED <<chat_sessions, chat_interactions, requests, inflight>>

\* getDefaultSlots called at the instant now
DefaultSlots(now) ==
    /\ last' = [op |-> "getDefaultSlots", now |-> now, slots |-> getDefaultSlots(now)]
    /\ UNCHANGED <<chat_sessions, chat_interactions, requests, inflight>>

NextSlots ==
    /\ last.op = "none"
    /\ \/ \E day \in 0..MaxDay, time \in StartTimes, range \in Ranges :
          \E busySlots \in BusyLists(day) :
             GenerateSlots(at_(day, 0, time), at_(day, 0, time) + range, busySlots)
       \/ \E day \in 0..MaxDay, time \in StartTimes : DefaultSlots(at_(day, 0, time))

SpecSlots == Init /\ [][NextSlots]_vars

\* C14: every slot generateAvailableSlots returns starts on a weekday at an
\* hour from 9 to 17, ends exactly 30 minutes after its start, and overlaps
\* no busy interval of the input (slotStart < busyEnd and slotEnd > busyStart)
C14_SlotValidity ==
    (last.op = "generateAvailableSlots")
        => \A k \in 1..Len(last.slots) :
              /\ getDay(last.slots[k].start) \in 1..5
              /\ getHours(last.slots[k].start) >= 9
              /\ getHours(last.slots[k].start) < 18
              /\ last.slots[k].end = last.slots[k].start + 30
              /\ \A b \in 1..Len(last.busySlots) :
                    ~(/\ last.slots[k].start < last.busySlots[b].end
                      /\ last.slots[k].end > last.busySlots[b].start)

\* slots were returned although the range starts on a weekday inside a busy
\* interval, in working hours, and a busy interval begins inside a slot of
\* the walk
C14_Witness ==
    /\ last.op = "generateAvailableSlots"
    /\ Len(last.slots) = 3
    /\ getDay(last.startDate) \in 1..5
    /\ getHours(last.startDate) = 10
    /\ \E b \in 1..Len(last.busySlots) :
          /\ last.busySlots[b].start > last.startDate
          /\ last.busySlots[b].start < last.startDate + 30
    /\ \E b \in 1..Len(last.busySlots) :
          /\ last.busySlots[b].start <= last.startDate
          /\ last.busySlots[b].end > last.startDate

\* the cursor instants of a call's walk that are acceptable candidates: on a
\* weekday, in working hours, overlapping no busy interval
acceptedOf(call) ==
    SelectSeq(cursors(call.startDate, call.endDate),
              LAMBDA t :
                 /\ getDay(t) \in 1..5
                 /\ getHours(t) >= 9
                 /\ getHours(t) < 18
                 /\ \A b \in 1..Len(call.busySlots) :
                       ~(/\ t < call.busySlots[b].end
                         /\ t + 30 > call.busySlots[b].start))

\* C15: generateAvailableSlots returns at most 3 slots; they are the earliest
\* non-conflicting candidates of the 30-minute walk from startDate towards
\* endDate, none left out, in strictly increasing order of start
C15_EarliestThree ==
    (last.op = "generateAvailableSlots")
        => /\ Len(last.slots) <= 3
           /\ Len(last.slots) = Min(3, Len(acceptedOf(last)))
           /\ \A k \in 1..Len(last.slots) : last.slots[k].start = acceptedOf(last)[k]
           /\ \A k \in 1..(Len(last.slots) - 1) :
                 last.slots[k].start < last.slots[k + 1].start

\* three slots were returned from a walk with more than ten acceptable
\* candidates, after candidates that were rejected
C15_Witness ==
    /\ last.op = "generateAvailableSlots"
    /\ Len(last.slots) = 3
    /\ Len(acceptedOf(last)) > 10
    /\ last.busySlots # <<>>
    /\ last.slots[1].start > last.startDate + minutesPerDay

\* the 09:00 that follows a Saturday or Sunday instant on the next Monday
nextWeekdayMorning(t) == at_((t \div minutesPerDay) + (IF getDay(t) = 6 THEN 2 ELSE 1), 9, 0)

\* C16: when startDate is on a Saturday or Sunday, endDate lies after 09:00 of
\* the next weekday and no busy interval overlaps the half hour from that
\* 09:00, the first returned slot starts at that 09:00
C16_WeekendStart ==
    (/\ last.op = "generateAvailableSlots"
     /\ getDay(last.startDate) \in {0, 6}
     /\ last.endDate > nextWeekdayMorning(last.startDate)
     /\ \A b \in 1..Len(last.busySlots) :
           ~(/\ nextWeekdayMorning(last.startDate) < last.busySlots[b].end
             /\ nextWeekdayMorning(last.startDate) + 30 > last.busySlots[b].start))
        => /\ last.slots # <<>>
           /\ last.slots[1].start = nextWeekdayMorning(last.startDate)
           /\ getDay(last.slots[1].start) = 1
           /\ getHours(last.slots[1].start) = 9
           /\ last.slots[1].start % 60 = 0

\* the scenario of the specification: Saturday 10:00 to the following Tuesday
\* 20:00, no busy interval, first slot on Monday at 09:00
C16_Witness ==
    /\ last.op = "generateAvailableSlots"
    /\ last.startDate = at_(5, 10, 0)
    /\ last.endDate = at_(8, 20, 0)
    /\ last.busySlots = <<>>
    /\ last.slots[1].start = at_(7, 9, 0)

\* C17: the reply of a turn that offers booking carries between 1 and 3
\* slots, and the slots endpoint answers with at least one slot, whatever the
\* doctors table and the calendars hold and also when a lookup fails
C17_NeverEmpty ==
    /\ (last.op = "message" /\ ~last.threw /\ offersBooking(last.reply))
          => /\ last.attached
             /\ Len(last.options) \in 1..3
    /\ (last.op = "slots") => (~last.threw /\ Len(last.options) >= 1)

\* C18: the default slot set is three 30-minute slots whose starts are two
\* hours apart, all on the first weekday after the day of the call, never on
\* a Saturday or a Sunday
C18_DefaultsOnBusinessDay ==
    (last.op = "getDefaultSlots")
        => /\ Len(last.slots) = 3
           /\ \A i \in 1..3 :
                 /\ last.slots[i].end = last.slots[i].start + 30
                 /\ getDay(last.slots[i].start) \in 1..5
                 /\ last.slots[i].start \div minutesPerDay =
                       (last.now \div minutesPerDay)
                          + (CASE getDay(last.now) = 5 -> 3
                               [] getDay(last.now) = 6 -> 2
                               [] OTHER -> 1)
           /\ \A i \in 1..2 : last.slots[i + 1].start = last.slots[i].start + 120

(***************************************************************************)
(* SpecPriority: determinePriority applied to symptom texts of up to       *)
(* MaxWords words in mixed case and to hints of at most one word, either   *)
(* of them possibly null.                                                  *)
(***************************************************************************)
MaxWords == 2

Words ==
    {<<"s","e","v","e","r","e">>, <<"C","h","e","s","t">>, <<"P","A","I","N">>,
     <<"m","i","l","d">>, <<"s","w","e","a","t","i","n","g">>,
     <<"F","a","i","n","t","i","n","g">>}

\* the words of a tuple joined by single spaces
RECURSIVE joined(_)
joined(ws) ==
    IF Len(ws) = 0 THEN <<>>
    ELSE IF Len(ws) = 1 THEN ws[1]
    ELSE ws[1] \o <<" ">> \o joined(Tail(ws))

SymptomTexts ==
    {NullText} \cup {<<joined(ws)>> : ws \in UNION {[1..n -> Words] : n \in 0..MaxWords}}

HintTexts == {NullText, <<<<>>>>} \cup {<<w>> : w \in Words}

Classify(symptoms, aiHints) ==
    /\ last' = [op |-> "determinePriority", symptoms |-> symptoms, aiHints |-> aiHints,
                priority |-> determinePriority(symptoms, aiHints)]
    /\ UNCHANGED <<chat_sessions, chat_interactions, requests, inflight>>

NextPriority ==
    /\ last.op = "none"
    /\ \E symptoms \in SymptomTexts, aiHints \in HintTexts : Classify(symptoms, aiHints)

SpecPriority == Init /\ [][NextPriority]_vars

\* the phrase occurs in the text at some position
occursIn(phrase, text) ==
    \E i \in 0..(Len(text) - Len(phrase)) :
        \A j \in 1..Len(phrase) : text[i + j] = phrase[j]

\* the lower-cased symptom text, a space, and the lower-cased hints; a null
\* input contributes no character
combinedOf(call) ==
    (IF call.symptoms = NullText THEN <<>> ELSE toLowerCase(call.symptoms[1]))
        \o <<" ">>
        \o (IF call.aiHints = NullText THEN <<>> ELSE toLowerCase(call.aiHints[1]))

\* C19: determinePriority returns URGENT when an emergency phrase occurs in
\* the lower-cased concatenation of symptom text and hints (also when a
\* high-priority phrase occurs too), otherwise HIGH when a high-priority
\* phrase occurs, otherwise NORMAL; a null input counts as empty text
C19_PriorityTiers ==
    (last.op = "determinePriority")
        => /\ last.priority =
                 IF \E k \in 1..Len(emergencyKeywords) :
                       occursIn(emergencyKeywords[k], combinedOf(last))
                 THEN "URGENT"
                 ELSE IF \E k \in 1..Len(highPriorityKeywords) :
                            occursIn(highPriorityKeywords[k], combinedOf(last))
                 THEN "HIGH"
                 ELSE "NORMAL"
           /\ (/\ \E k \in 1..Len(emergencyKeywords) :
                     occursIn(emergencyKeywords[k], combinedOf(last))
               /\ \E k \in 1..Len(highPriorityKeywords) :
                     occursIn(highPriorityKeywords[k], combinedOf(last)))
                 => last.priority = "URGENT"
           /\ last.priority =
                 determinePriority(IF last.symptoms = NullText THEN <<<<>>>> ELSE last.symptoms,
                                   IF last.aiHints = NullText THEN <<<<>>>> ELSE last.aiHints)

\* a call with null hints whose symptom text, written with capitals, holds a
\* phrase of each tier, classified URGENT
C19_Witness ==
    /\ last.op = "determinePriority"
    /\ last.aiHints = NullText
    /\ last.symptoms # NullText
    /\ last.symptoms[1] # toLowerCase(last.symptoms[1])
    /\ occursIn(<<"f","a","i","n","t","i","n","g">>, combinedOf(last))
    /\ occursIn(<<"s","w","e","a","t","i","n","g">>, combinedOf(last))
    /\ last.priority = "URGENT"

(***************************************************************************)
(* SpecDetect: detectMainSymptom applied to catalogs of up to MaxCatalog   *)
(* distinct keys, in every order, and to texts of up to MaxWords words.    *)
(* Keys are in lower case, as every route that writes symptom_rules stores *)
(* them.                                                                   *)
(***************************************************************************)
MaxCatalog == 3

CatalogKeys ==
    {<<"c","h","e","s","t"," ","p","a","i","n">>,
     <<"b","a","c","k"," ","p","a","i","n">>,
     <<"p","a","i","n">>,
     <<"f","a","t","i","g","u","e">>}

Catalogs ==
    {c \in UNION {[1..n -> CatalogKeys] : n \in 0..MaxCatalog} :
        \A i, j \in 1..Len(c) : i # j => c[i] # c[j]}

TextWords ==
    {<<"C","h","e","s","t">>, <<"p","a","i","n">>, <<"b","a","c","k">>,
     <<"P","A","I","N",",">>, <<"f","a","t","i","g","u","e","d">>}

MessageTexts == {joined(ws) : ws \in UNION {[1..n -> TextWords] : n \in 0..MaxWords}}

Detect(symptoms, message) ==
    /\ last' = [op |-> "detectMainSymptom", symptoms |-> symptoms, message |-> message,
                detected |-> detectIn(symptoms, message)]
    /\ UNCHANGED <<chat_sessions, chat_interactions, requests, inflight>>

NextDetect ==
    /\ last.op = "none"
    /\ \E symptoms \in Catalogs, message \in MessageTexts : Detect(symptoms, message)

SpecDetect == Init /\ [][NextDetect]_vars

\* the positions of the catalog whose key occurs in the text, whatever the
\* case of either
containedAt(call) ==
    {k \in 1..Len(call.symptoms) :
        occursIn(toLowerCase(call.symptoms[k]), toLowerCase(call.message))}

\* the number of tokens of the k-th key that are tokens of the text
overlapAt(call, k) ==
    Cardinality({w \in wordsOf(toLowerCase(call.symptoms[k])) :
                    w \in tokensOf(toLowerCase(call.message))})

\* C20: detectMainSymptom returns the first key of the catalog that occurs in
\* the text, case ignored; when none occurs, the first key among those with
\* the highest number of tokens present in the text, and null when that
\* number is 0; the result is null or a key of the catalog
C20_DetectTiers ==
    (last.op = "detectMainSymptom")
        => /\ containedAt(last) # {}
                 => \E k \in containedAt(last) :
                       /\ \A j \in containedAt(last) : k <= j
                       /\ last.detected = last.symptoms[k]
           /\ (containedAt(last) = {}
                  /\ \A k \in 1..Len(last.symptoms) : overlapAt(last, k) = 0)
                 => last.detected = NoSymptom
           /\ (containedAt(last) = {}
                  /\ \E k \in 1..Len(last.symptoms) : overlapAt(last, k) > 0)
                 => \E k \in 1..Len(last.symptoms) :
                       /\ \A j \in 1..Len(last.symptoms) : overlapAt(last, j) <= overlapAt(last, k)
                       /\ \A j \in 1..(k - 1) : overlapAt(last, j) < overlapAt(last, k)
                       /\ last.detected = last.symptoms[k]
           /\ \/ last.detected = NoSymptom
              \/ \E k \in 1..Len(last.symptoms) : last.detected = last.symptoms[k]

\* no key occurs in the text, two keys share the highest token count, and the
\* earlier one is returned
C20_Witness ==
    /\ last.op = "detectMainSymptom"
    /\ containedAt(last) = {}
    /\ \E k \in 1..Len(last.symptoms) :
          /\ last.detected = last.symptoms[k]
          /\ overlapAt(last, k) > 0
          /\ \E j \in (k + 1)..Len(last.symptoms) : overlapAt(last, j) = overlapAt(last, k)

(***************************************************************************)
(* SpecFilter: filterAndSpellCheck applied to its own result, for texts    *)
(* made of up to MaxParts fragments written one after the other: variants, *)
(* canonical terms, pieces of disallowed words and a blank.                *)
(***************************************************************************)
MaxParts == 2

Fragments ==
    {<<"c","a","n","t"," ","b","r","e","a","t","h","e">>,
     <<"a","c","k">>,
     <<"h">>,
     <<"d","i","z","z","y">>,
     <<"T","i","r","e","d">>,
     <<"c","h","e","s","t"," ">>,
     <<"p","a","n","e">>,
     <<"s","h","o","r","t"," ","b","r","e","a","t","h">>,
     <<"i","n","g"," ","p","r","o","b","l","e","m">>,
     <<" ">>}

RECURSIVE concatenated(_)
concatenated(parts) ==
    IF Len(parts) = 0 THEN <<>> ELSE parts[1] \o concatenated(Tail(parts))

FilterInputs ==
    {concatenated(parts) : parts \in UNION {[1..n -> Fragments] : n \in 0..MaxParts}}

Normalize(message) ==
    /\ \E once \in {filterAndSpellCheck(message)} :
          last' = [op |-> "filterAndSpellCheck", message |-> message,
                   once |-> once, twice |-> filterAndSpellCheck(once)]
    /\ UNCHANGED <<chat_sessions, chat_interactions, requests, inflight>>

NextFilter ==
    /\ last.op = "none"
    /\ \E message \in FilterInputs : Normalize(message)

SpecFilter == Init /\ [][NextFilter]_vars

\* C21: for a text without redaction marker, filterAndSpellCheck applied to
\* its own result returns that result unchanged
C21_Idempotent ==
    (last.op = "filterAndSpellCheck" /\ ~includes(last.message, FILTERED))
        => last.twice = last.once

(***************************************************************************)
(* SpecConcurrent: the same requests, one database statement at a time.    *)
(* The handlers are async functions without lock or transaction: between   *)
(* two awaited statements of one request the statements of another may run.*)
(* A request in flight keeps what it has read in its own variables.        *)
(***************************************************************************)
MaxInflight == 2

MaxArrivals == 3

\* the variables of a request in flight: local is the session_data it read
\* last, updated and reply are updatedSession and aiResponse of getAIResponse
arrived(op, pc, patientId, sessionId, message, local) ==
    [op |-> op, pc |-> pc, patientId |-> patientId, sessionId |-> sessionId,
     message |-> message, local |-> local, sessionData |-> local,
     inference |-> notCalled, threw |-> FALSE, path |-> "none", ran |-> {},
     from |-> "none", reply |-> emptyObject, updated |-> local]

without(seq, i) == SubSeq(seq, 1, i - 1) \o SubSeq(seq, i + 1, Len(seq))

startsInFlight == Cardinality({i \in 1..Len(inflight) : inflight[i].op = "start"})

\* POST /chat/start, first statement (routes 437-440): the patient's active
\* sessions are completed
StartArrive(patientId) ==
    /\ requests < MaxArrivals
    /\ Len(inflight) < MaxInflight
    /\ Len(chat_sessions) + startsInFlight < MaxSessions
    /\ chat_sessions' =
          [s \in 1..Len(chat_sessions) |->
              IF s \in activeOf(chat_sessions, patientId)
              THEN [chat_sessions[s] EXCEPT !.status = "completed"]
              ELSE chat_sessions[s]]
    /\ inflight' = Append(inflight, arrived("start", "insert", patientId, 0, <<>>,
                                            initialSessionData))
    /\ requests' = requests + 1
    /\ UNCHANGED <<chat_interactions, last>>

\* POST /chat/start, the INSERT of the new session (routes 462-477) and the
\* response
StartInsert(i) ==
    /\ i \in 1..Len(inflight)
    /\ inflight[i].op = "start"
    /\ chat_sessions' = Append(chat_sessions,
                               [patient_id |-> inflight[i].patientId,
                                status |-> "active",
                                session_data |-> initialSessionData,
                                total_questions_asked |-> 0])
    /\ last' = [noRequest EXCEPT !.op = "start", !.patientId = inflight[i].patientId,
                                 !.sessionId = Len(chat_sessions) + 1]
    /\ inflight' = without(inflight, i)
    /\ UNCHANGED <<chat_interactions, requests>>

\* POST /chat/complete: a single statement
CompleteNow(sessionId) ==
    /\ requests < MaxArrivals
    /\ sessionId \in 1..Len(chat_sessions)
    /\ chat_sessions[sessionId].status = "active"
    /\ chat_sessions' = [chat_sessions EXCEPT ![sessionId].status = "completed"]
    /\ last' = [noRequest EXCEPT !.op = "complete", !.sessionId = sessionId,
                                 !.patientId = chat_sessions[sessionId].patient_id]
    /\ requests' = requests + 1
    /\ UNCHANGED <<chat_interactions, inflight>>

\* UPDATE chat_sessions SET session_data = {...prevData, messages} WHERE
\* session_id, for the prevData read by an earlier statement
writeBack(rows, sessionId, prevData, role, content) ==
    [rows EXCEPT ![sessionId].session_data =
        [prevData EXCEPT !.messages =
            trimmed(Append(prevData.messages, [role |-> role, content |-> content]))]]

\* patient_message: the SELECT of sessBefore (server 199)
MsgArrive(patientId, sessionId, message) ==
    /\ requests < MaxArrivals
    /\ Len(inflight) < MaxInflight
    /\ sessionId \in 1..Len(chat_sessions)
    /\ inflight' = Append(inflight,
                          arrived("message", "appendUser", patientId, sessionId, message,
                                  chat_sessions[sessionId].session_data))
    /\ requests' = requests + 1
    /\ UNCHANGED <<chat_sessions, chat_interactions, last>>

\* the UPDATE that appends the patient's message (server 204-207)
MsgAppendUser(i) ==
    /\ i \in 1..Len(inflight)
    /\ inflight[i].pc = "appendUser"
    /\ chat_sessions' = writeBack(chat_sessions, inflight[i].sessionId, inflight[i].local,
                                  "user", inflight[i].message)
    /\ inflight' = [inflight EXCEPT ![i].pc = "read"]
    /\ UNCHANGED <<chat_interactions, requests, last>>

\* processPatientMessage: the SELECT of session_data (server 292-297)
MsgRead(i) ==
    /\ i \in 1..Len(inflight)
    /\ inflight[i].pc = "read"
    /\ inflight' = [inflight EXCEPT ![i].pc = "respond",
                                    ![i].local = chat_sessions[inflight[i].sessionId].session_data,
                                    ![i].sessionData = chat_sessions[inflight[i].sessionId].session_data]
    /\ UNCHANGED <<chat_sessions, chat_interactions, requests, last>>

\* getAIResponse up to the INSERT into chat_interactions (llm.js 20-211)
MsgRespond(i) ==
    /\ i \in 1..Len(inflight)
    /\ inflight[i].pc = "respond"
    /\ \E inference \in inferencesFor(inflight[i].message, inflight[i].local) :
       \E r \in {getAIResponse(inflight[i].message, inflight[i].local, inference)} :
       \E active \in {activeOf(chat_sessions, inflight[i].patientId)} :
          IF r.threw \/ Cardinality(active) > 1
          THEN /\ inflight' =
                     [inflight EXCEPT
                         ![i].pc = "readAfter",
                         ![i].inference = inference,
                         ![i].threw = TRUE,
                         ![i].path = r.path, ![i].ran = r.ran, ![i].from = r.from,
                         ![i].reply = [emptyObject EXCEPT
                                          !.message = troubleMessage,
                                          !.type = "error",
                                          !.nextStep = Or(inflight[i].local.currentStep,
                                                          "symptom_identification")]]
               /\ UNCHANGED chat_interactions
          ELSE /\ inflight' =
                     [inflight EXCEPT
                         ![i].pc = "update",
                         ![i].inference = inference,
                         ![i].path = r.path, ![i].ran = r.ran, ![i].from = r.from,
                         ![i].reply = r.reply,
                         ![i].updated = r.updatedSession]
               /\ chat_interactions' =
                     Append(chat_interactions,
                            [session_id |-> IF active = {} THEN 0
                                            ELSE CHOOSE s \in active : TRUE,
                             question |-> r.interaction.question,
                             answer |-> r.interaction.answer,
                             question_type |-> r.interaction.question_type])
    /\ UNCHANGED <<chat_sessions, requests, last>>

\* UPDATE chat_sessions SET session_data = updatedSession WHERE patient_id AND
\* status = 'active' (llm.js 214-217)
MsgUpdate(i) ==
    /\ i \in 1..Len(inflight)
    /\ inflight[i].pc = "update"
    /\ chat_sessions' =
          [s \in 1..Len(chat_sessions) |->
              IF s \in activeOf(chat_sessions, inflight[i].patientId)
              THEN [chat_sessions[s] EXCEPT !.session_data = inflight[i].updated]
              ELSE chat_sessions[s]]
    /\ inflight' = [inflight EXCEPT ![i].pc = "count"]
    /\ UNCHANGED <<chat_interactions, requests, last>>

\* the increment of total_questions_asked (llm.js 220-229)
MsgCount(i) ==
    /\ i \in 1..Len(inflight)
    /\ inflight[i].pc = "count"
    /\ chat_sessions' =
          [s \in 1..Len(chat_sessions) |->
              IF s \in activeOf(chat_sessions, inflight[i].patientId)
              THEN [chat_sessions[s] EXCEPT !.total_questions_asked = @ + 1]
              ELSE chat_sessions[s]]
    /\ inflight' = [inflight EXCEPT ![i].pc = "readAfter"]
    /\ UNCHANGED <<chat_interactions, requests, last>>

\* the SELECT of sessAfter (server 232)
MsgReadAfter(i) ==
    /\ i \in 1..Len(inflight)
    /\ inflight[i].pc = "readAfter"
    /\ inflight' = [inflight EXCEPT ![i].pc = "appendAssistant",
                                    ![i].local = chat_sessions[inflight[i].sessionId].session_data]
    /\ UNCHANGED <<chat_sessions, chat_interactions, requests, last>>

\* the UPDATE that appends the assistant's message (server 238) and the
\* bot_response; the slots are those of an empty doctors table
MsgAppendAssistant(i) ==
    /\ i \in 1..Len(inflight)
    /\ inflight[i].pc = "appendAssistant"
    /\ chat_sessions' = writeBack(chat_sessions, inflight[i].sessionId, inflight[i].local,
                                  "assistant", Or(inflight[i].reply.message, ""))
    /\ \E slots \in {attachSlots(inflight[i].reply, idleCalendar)} :
          last' = [op |-> "message", patientId |-> inflight[i].patientId,
                   sessionId |-> inflight[i].sessionId, message |-> inflight[i].message,
                   inference |-> inflight[i].inference,
                   sessionData |-> inflight[i].sessionData,
                   threw |-> inflight[i].threw, path |-> inflight[i].path,
                   ran |-> inflight[i].ran, from |-> inflight[i].from,
                   reply |-> inflight[i].reply,
                   written |-> {},
                   updated |-> inflight[i].updated,
                   calendar |-> idleCalendar,
                   attached |-> ~inflight[i].threw /\ slots.attached,
                   options |-> IF inflight[i].threw THEN <<>> ELSE slots.options,
                   suggestedDoctorId |-> noDoctor]
    /\ inflight' = without(inflight, i)
    /\ UNCHANGED <<chat_interactions, requests>>

NextConcurrent ==
    \/ \E p \in Patients : StartArrive(p)
    \/ \E i \in 1..MaxInflight : StartInsert(i)
    \/ \E s \in 1..MaxSessions : CompleteNow(s)
    \/ \E p \in Patients, s \in 1..MaxSessions, m \in Utterances : MsgArrive(p, s, m)
    \/ \E i \in 1..MaxInflight : MsgAppendUser(i)
    \/ \E i \in 1..MaxInflight : MsgRead(i)
    \/ \E i \in 1..MaxInflight : MsgRespond(i)
    \/ \E i \in 1..MaxInflight : MsgUpdate(i)
    \/ \E i \in 1..MaxInflight : MsgCount(i)
    \/ \E i \in 1..MaxInflight : MsgReadAfter(i)
    \/ \E i \in 1..MaxInflight : MsgAppendAssistant(i)

SpecConcurrent == Init /\ [][NextConcurrent]_vars

\* the answers the turns of session s have inserted into chat_interactions
answersSaved(s) ==
    [k \in 1..Len(SelectSeq(chat_interactions, LAMBDA row : row.session_id = s)) |->
        SelectSeq(chat_interactions, LAMBDA row : row.session_id = s)[k].answer]

answersKept(s) ==
    [k \in 1..Len(chat_sessions[s].session_data.allPatientAnswers) |->
        chat_sessions[s].session_data.allPatientAnswers[k].answer]

\* C22: once the turns of a patient's only session, still active, have all
\* been handled, the session's allPatientAnswers holds the answer of every
\* turn that was saved, in order: no turn's update of the session state is
\* lost
C22_NoLostTurn ==
    (inflight = <<>> /\ Len(chat_sessions) = 1 /\ chat_sessions[1].status = "active")
        => answersKept(1) = answersSaved(1)

\* C30: when no request is in flight, each patient has at most one chat
\* session with status 'active'
C30_OneActiveSession ==
    (inflight = <<>>)
        => \A p \in Patients : Cardinality(activeOf(chat_sessions, p)) <= 1

\* ---------------------------------------------------------------------
\* Turns under database faults.  Each awaited db.query can reject; the
\* faults explored are the ones getAIResponse treats differently.
\* ---------------------------------------------------------------------

\* none: every statement succeeds; rules: every query of symptom_rules
\* rejects; questions: the query of getSymptomQuestions rejects; update: the
\* UPDATE of session_data (llm.js 214-217) rejects
Faults == {"none", "rules", "questions", "update"}

\* lines 77-116 when the query of getSymptomQuestions can reject: its catch
\* (line 395) returns the empty list
deterministicResponseUnder(currentStep, currentSymptom, asked, symptomQuestions, detected, questionsOk) ==
    IF currentStep = "symptom_identification" \/ currentSymptom = NoSymptom
    THEN detectionResponse(detected, IF questionsOk THEN getSymptomQuestions(detected)
                                     ELSE <<>>)
    ELSE IF currentStep = "symptom_questions" /\ currentSymptom # NoSymptom
    THEN followUpResponse(currentSymptom, asked,
                          IF Len(symptomQuestions) # 0 THEN symptomQuestions
                          ELSE IF questionsOk THEN getSymptomQuestions(currentSymptom)
                          ELSE <<>>)
    ELSE unset

\* whether a query of symptom_rules rejects during the turn: the query of
\* line 61, of detectMainSymptom (line 404) or of getSymptomQuestions (381)
catalogFailed(fault, currentStep, currentSymptom, symptomQuestions, detected) ==
    CASE fault = "rules" ->
           currentStep \in {"symptom_identification", "symptom_questions"}
               \/ currentSymptom = NoSymptom
      [] fault = "questions" ->
           IF currentStep = "symptom_identification" \/ currentSymptom = NoSymptom
           THEN detected # NoSymptom
           ELSE currentStep = "symptom_questions" /\ Len(symptomQuestions) = 0
      [] OTHER -> FALSE

\* getAIResponse up to its writes when the symptom_rules queries reject: the
\* query of line 61 has no catch of its own and ends in the catch of line
\* 266; the catch of detectMainSymptom (line 422) returns null
getAIResponseUnder(message, sessionData, inference, fault, currentStep, symptomQuestions) ==
    IF fault = "rules" /\ currentStep = "symptom_questions"
                       /\ sessionData.currentSymptom # NoSymptom
    THEN settled(sessionData, inference, filteredOf[message], FALSE,
                 parseRepair(<<>>), unset, TRUE)
    ELSE IF fault \in {"rules", "questions"}
    THEN responseOf(sessionData, inference, filteredOf[message],
                    deterministicResponseUnder(currentStep, sessionData.currentSymptom,
                        sessionData.questionsAskedForCurrentSymptom, symptomQuestions,
                        IF fault = "rules" THEN NoSymptom ELSE detectedOf[message],
                        FALSE),
                    parseRepair(inference.content),
                    fallbackResponse(sessionData.currentSymptom,
                                     sessionData.questionsAskedForCurrentSymptom,
                                     symptomQuestions,
                                     nextSymptomQuestionFor(currentStep, symptomQuestions,
                                         sessionData.questionsAskedForCurrentSymptom)))
    ELSE getAIResponseWith(message, sessionData, inference, currentStep, symptomQuestions)

\* the generic error reply of the catch (lines 266-273)
errorReply(sessionData) ==
    [emptyObject EXCEPT !.message = troubleMessage,
                        !.type = "error",
                        !.nextStep = Or(sessionData.currentStep, "symptom_identification")]

\* One patient message from arrival to reply under a fault
FaultyTurn(patientId, sessionId, message, inference, fault) ==
    /\ requests < MaxRequests
    /\ sessionId \in 1..Len(chat_sessions)
    /\ \E afterUser \in {appendMessage(chat_sessions, sessionId, "user", message)} :
       \E sessionData \in {afterUser[sessionId].session_data} :
       \E currentStep \in {Or(sessionData.currentStep, "symptom_identification")} :
       \E symptomQuestions \in {symptomQuestionsFor(currentStep, sessionData.currentSymptom)} :
       \E r \in {getAIResponseUnder(message, sessionData, inference, fault,
                                    currentStep, symptomQuestions)} :
       \E active \in {activeOf(afterUser, patientId)} :
       \E inserted \in {~r.threw /\ Cardinality(active) <= 1} :
       \E threw \in {~inserted \/ fault = "update"} :
       \E reply \in {IF threw THEN errorReply(sessionData) ELSE r.reply} :
       \E slots \in {attachSlots(reply, idleCalendar)} :
          /\ chat_sessions' =
                appendMessage(IF threw THEN afterUser
                              ELSE saveTurn(afterUser, patientId, r.updatedSession),
                              sessionId, "assistant", Or(reply.message, ""))
          /\ chat_interactions' =
                IF ~inserted THEN chat_interactions
                ELSE Append(chat_interactions,
                            [session_id |-> IF active = {} THEN 0
                                            ELSE CHOOSE s \in active : TRUE,
                             question |-> r.interaction.question,
                             answer |-> r.interaction.answer,
                             question_type |-> r.interaction.question_type])
          /\ last' = [op |-> "message", patientId |-> patientId,
                      sessionId |-> sessionId, message |-> message,
                      inference |-> inference, sessionData |-> sessionData,
                      threw |-> threw, path |-> r.path, ran |-> r.ran,
                      from |-> r.from, reply |-> reply,
                      written |-> IF threw THEN {} ELSE active,
                      updated |-> IF threw THEN sessionData ELSE r.updatedSession,
                      calendar |-> idleCalendar,
                      attached |-> ~threw /\ slots.attached,
                      options |-> IF threw THEN <<>> ELSE slots.options,
                      suggestedDoctorId |-> noDoctor,
                      fault |-> fault,
                      failed |-> catalogFailed(fault, currentStep,
                                               sessionData.currentSymptom,
                                               symptomQuestions, detectedOf[message])]
    /\ requests' = requests + 1
    /\ UNCHANGED inflight

\* the inference call is made only on the model-assisted path
inferencesUnder(message, sessionData, fault) ==
    IF getAIResponseUnder(message, sessionData, notCalled, fault,
                          Or(sessionData.currentStep, "symptom_identification"),
                          symptomQuestionsFor(Or(sessionData.currentStep,
                                                 "symptom_identification"),
                                              sessionData.currentSymptom)).path
           = "deterministic"
    THEN {notCalled}
    ELSE Inferences

FaultyMessage(patientId, sessionId, message, fault) ==
    /\ sessionId \in 1..Len(chat_sessions)
    /\ \E inference \in inferencesUnder(message,
              appendMessage(chat_sessions, sessionId, "user", message)[sessionId].session_data,
              fault) :
          FaultyTurn(patientId, sessionId, message, inference, fault)

\* the number of requests explored under faults
MaxFaultyRequests == 4

NextFaults ==
    \/ requests < MaxFaultyRequests /\ \E p \in Patients : ChatStart(p)
    \/ requests < MaxFaultyRequests /\ \E s \in 1..MaxSessions : ChatComplete(s)
    \/ /\ requests < MaxFaultyRequests
       /\ \E p \in Patients, s \in 1..MaxSessions, m \in Utterances, fault \in Faults :
             FaultyMessage(p, s, m, fault)

SpecFaults == Init /\ [][NextFaults]_vars

\* C23: a turn during which a query of symptom_rules rejects ends in the
\* error of getAIResponse: it does not go on as if no symptom had matched or
\* with an empty list of questions
C23_CatalogFailureIsHard ==
    (last.op = "message" /\ last.fault \in {"rules", "questions"} /\ last.failed)
        => last.threw

(***************************************************************************)
(* The while loop of generateAvailableSlots, one iteration per step.  The  *)
(* loop state is kept in last: current is the cursor, slots the slots      *)
(* accumulated so far, and after the return the slots returned.            *)
(***************************************************************************)

\* busy lists of the loop: none, or one interval
LoopBusyLists(day) == {<<>>} \cup {<<b>> : b \in BusyIntervals(day)}

\* lines 184-186: slots = [], current = startDate, end = endDate
LoopEnter(startDate, endDate, busySlots) ==
    /\ last.op = "none"
    /\ last' = [op |-> "while", startDate |-> startDate, endDate |-> endDate,
                busySlots |-> busySlots, current |-> startDate, slots |-> <<>>,
                iterations |-> 0, returned |-> FALSE]
    /\ UNCHANGED <<chat_sessions, chat_interactions, requests, inflight>>

\* while (current < end && slots.length < 10)
looping == /\ last.op = "while"
           /\ ~last.returned
           /\ last.current < last.endDate
           /\ Len(last.slots) < maxCandidates

\* one iteration (lines 189-226): the weekend skip, or the examination of
\* the candidate at the cursor and the move to the next cursor
LoopIterate ==
    /\ looping
    /\ last' = IF isWeekend(last.current)
               THEN [last EXCEPT !.current = skipWeekend(last.current),
                                 !.iterations = @ + 1]
               ELSE [last EXCEPT !.current = advanced(last.current),
                                 !.slots = examined(last.current, last.busySlots, @),
                                 !.iterations = @ + 1]
    /\ UNCHANGED <<chat_sessions, chat_interactions, requests, inflight>>

\* return slots.slice(0, 3)
LoopReturn ==
    /\ last.op = "while"
    /\ ~last.returned
    /\ ~looping
    /\ last' = [last EXCEPT !.returned = TRUE, !.slots = slice(@, topSlots)]
    /\ UNCHANGED <<chat_sessions, chat_interactions, requests, inflight>>

NextLoop ==
    \/ /\ last.op = "none"
       /\ \E day \in 0..MaxDay, time \in StartTimes, range \in Ranges :
          \E busySlots \in LoopBusyLists(day) :
             LoopEnter(at_(day, 0, time), at_(day, 0, time) + range, busySlots)
    \/ LoopIterate
    \/ LoopReturn

SpecLoop == Init /\ [][NextLoop]_vars

\* the loop is synchronous code: once entered it runs until it returns
SpecLoopFair == SpecLoop /\ WF_vars(LoopIterate) /\ WF_vars(LoopReturn)

\* C24: every iteration of the loop of generateAvailableSlots moves the
\* cursor to a strictly later instant, and every call, whatever its
\* startDate, endDate and busy list, returns a list of at most three slots
C24_Total ==
    /\ [][(last.op = "while" /\ last'.op = "while" /\ ~last'.returned)
             => last'.current > last.current]_vars
    /\ (last.op = "while") ~> (last.op = "while" /\ last.returned
                                 /\ Len(last.slots) <= topSlots)

\* a call on a working day and hour whose range is wholly busy: the loop
\* has run and the list returned is empty
C24_Witness ==
    /\ last.op = "while"
    /\ last.returned
    /\ last.iterations > 0
    /\ ~isWeekend(last.startDate)
    /\ getHours(last.startDate) >= dayStartHour
    /\ getHours(last.startDate) < dayEndHour
    /\ last.slots = <<>>

\* C25: every slot generateAvailableSlots returns ends no later than 18:00
\* of the day on which it starts, whatever the startDate, aligned to the
\* half hour or not
C25_EndsWithinHours ==
    last.op = "generateAvailableSlots"
        => \A k \in 1..Len(last.slots) :
              last.slots[k].end
                  <= at_(last.slots[k].start \div minutesPerDay, dayEndHour, 0)

(***************************************************************************)
(* The deterministic path of getAIResponse (llm.js 58-116, 188-192) on a   *)
(* session of its own, for catalogs whose keys may contain one another.    *)
(* The routes store a rule under any key that is not already there         *)
(* (symptom_routes.js 84), so 'pain' and 'chest pain' can both be rules.   *)
(***************************************************************************)

PAIN == <<"p","a","i","n">>

\* rules the catalog can hold, each with at least one follow-up question
RuleBook ==
    {symptom_rules[1],
     symptom_rules[2],
     [symptom |-> PAIN,
      follow_up_questions |-> <<"Where do you feel the pain?",
                                "How long have you had the pain?">>]}

\* tables of up to MaxCatalog rules with distinct keys, in every row order
RuleTables ==
    {c \in UNION {[1..n -> RuleBook] : n \in 1..MaxCatalog} :
        \A i, j \in 1..Len(c) : i # j => c[i] # c[j]}

\* rows of the table rules WHERE symptom ILIKE '%key%', in table order
rulesLikeIn(rules, key) ==
    SelectSeq(rules, LAMBDA r : includes(toLowerCase(r.symptom), toLowerCase(key)))

\* the first turn (lines 79-91, 188-192): the patient names a symptom
Identify(rules, message) ==
    /\ \E detected \in {detectIn([k \in 1..Len(rules) |-> rules[k].symptom], message)} :
       \E reply \in {detectionResponse(detected,
                        questionsOr(rulesLikeIn(rules, detected), defaultQuestions))} :
          /\ detected # NoSymptom
          /\ last' = [op |-> "sequence", rules |-> rules, message |-> message,
                      currentStep |-> reply.nextStep,
                      currentSymptom |-> reply.currentSymptom,
                      asked |-> reply.questionNumber,
                      read |-> 0,
                      reply |-> reply]
    /\ UNCHANGED <<chat_sessions, chat_interactions, requests, inflight>>

\* a later turn (lines 58-66, 92-115, 188-192): the patient answers
Answer ==
    /\ last.op = "sequence"
    /\ last.currentStep = "symptom_questions"
    /\ \E symptomQuestions \in {questionsOr(rulesLikeIn(last.rules, last.currentSymptom),
                                            <<>>)} :
       \E reply \in {followUpResponse(last.currentSymptom, last.asked,
                        IF Len(symptomQuestions) # 0 THEN symptomQuestions
                        ELSE questionsOr(rulesLikeIn(last.rules, last.currentSymptom),
                                         defaultQuestions))} :
          last' = [last EXCEPT !.currentStep = reply.nextStep,
                               !.asked = reply.questionNumber,
                               !.read = last.asked,
                               !.reply = reply]
    /\ UNCHANGED <<chat_sessions, chat_interactions, requests, inflight>>

NextSequence ==
    \/ /\ last.op = "none"
       /\ \E rules \in RuleTables,
             message \in {r.symptom : r \in RuleBook} \cup {filteredOf[u] : u \in Utterances} :
             Identify(rules, message)
    \/ Answer

SpecSequence == Init /\ [][NextSequence]_vars

\* the rule stored under the key s
ruleOf(rules, s) == CHOOSE r \in {rules[k] : k \in 1..Len(rules)} : r.symptom = s

\* C26: with n the smaller of the configured maximum and the number of
\* follow-up questions of the rule of the session's symptom, the turn that
\* reads cursor a < n (0 at identification) asks question a + 1 of that rule
\* and stores cursor a + 1, and the turn that reads cursor n asks nothing
\* more: it closes with currentStep booking_offer and allQuestionsCompleted
C26_AsksInOrder ==
    last.op = "sequence"
        => LET questions == ruleOf(last.rules, last.currentSymptom).follow_up_questions
               n == Min(maxQuestionsPerSymptom, Len(questions))
           IN  IF last.read < n
               THEN /\ last.reply.message = questions[last.read + 1]
                    /\ last.asked = last.read + 1
                    /\ last.currentStep = "symptom_questions"
                    /\ ~last.reply.allQuestionsCompleted
               ELSE /\ last.reply.message = closingMessage
                    /\ last.currentStep = "booking_offer"
                    /\ last.reply.allQuestionsCompleted

\* C27: the reply synthesized when no completion can be parsed, in a session
\* whose symptom has a rule, agrees with the sequencing of the questions:
\* with cap the smaller of the configured maximum and the number of
\* follow-ups of the rule, allQuestionsCompleted is true exactly when the
\* stored cursor has reached cap, the next step is then booking_offer, and
\* below cap the message is the question at the cursor
C27_FallbackAgrees ==
    (/\ last.op = "message"
     /\ ~last.threw
     /\ last.path = "fallback"
     /\ last.sessionData.currentSymptom # NoSymptom
     /\ rulesLike(last.sessionData.currentSymptom) # <<>>)
        => LET questions == getSymptomQuestions(last.sessionData.currentSymptom)
               cursor == last.sessionData.questionsAskedForCurrentSymptom
               cap == Min(maxQuestionsPerSymptom, Len(questions))
           IN  /\ last.reply.allQuestionsCompleted <=> cursor >= cap
               /\ cursor >= cap => last.reply.nextStep = "booking_offer"
               /\ cursor < cap => last.reply.message = questions[cursor + 1]

\* C28: a patient message submitted with session id S changes the stored
\* row of no session other than S
C28_OnlyOwnSession ==
    [][last'.op = "message"
          => \A s \in 1..Len(chat_sessions) :
                s # last'.sessionId => chat_sessions'[s] = chat_sessions[s]]_vars

\* the stored session state of a row: session_data without the message window
stateOf(row) == [row.session_data EXCEPT !.messages = <<>>]

\* C29: a patient message that ends in the generic error reply leaves the
\* stored state of every session as it was, writes no chat_interactions row,
\* and replies with the current step of its session as nextStep
C29_ErrorLeavesNoTrace ==
    [][(last'.op = "message" /\ last'.threw)
          => /\ chat_interactions' = chat_interactions
             /\ \A s \in 1..Len(chat_sessions) :
                   stateOf(chat_sessions'[s]) = stateOf(chat_sessions[s])
             /\ last'.reply.type = "error"
             /\ last'.reply.nextStep =
                   chat_sessions[last'.sessionId].session_data.currentStep]_vars

====
